---- MODULE Spec2Model ----
(***************************************************************************)
(* Client-side session / streaming protocol engine of RainbowSTS.          *)
(*                                                                         *)
(*   State            src/unnamed/part_000   (session controller)          *)
(*   SessionManager   src/unnamed/part_003   (session open / close)        *)
(*   WebSocketHandler src/static/js/websocket-handler.js (channel)         *)
(*   AudioRecorder    src/unnamed/part_005   (capture)                     *)
(*                                                                         *)
(* One step of the model is one task of the browser's event loop: a call   *)
(* made by the presentation layer, run up to its first pending await, or   *)
(* the completion of a pending request / socket event / timer, run until   *)
(* the handler next suspends on something pending.  A continuation of an   *)
(* await on an already settled promise runs in the same step, since no     *)
(* other task can be scheduled in between.                                 *)
(***************************************************************************)
EXTENDS Integers, Sequences, FiniteSets, TLC

(***************************************************************************)
(* Bounds of the model.                                                    *)
(***************************************************************************)
MaxClosing == 1        \* replaced sockets whose close event is pending
MaxSessionId == 2      \* distinct session ids the backend hands out
MaxTimers == 1         \* reconnect timers pending at the same time
MaxPendingStarts == 1  \* getUserMedia calls pending at the same time
MaxTranscript == 14    \* characters of finalized text the view holds
MaxChunks == 5         \* audio chunks the MediaRecorder hands over
SampleDen == 16        \* the samples tried are the multiples of 1/SampleDen
MaxSample == 32        \* ... from -MaxSample/SampleDen to MaxSample/SampleDen
MaxPieces == 2         \* pieces a device label is put together from
MaxFrameSamples == 3   \* samples in the chunk of one frame
MaxDevices == 2        \* devices enumerateDevices() reports at one time
MaxSubscriptions == 3   \* addEventListener and removeEventListener calls made
MaxInbound == 2        \* frames that arrive while the registry is followed
MaxProcessCalls == 17   \* process() calls made on the worklet
MaxSessions == 4        \* startSession() calls that succeeded

(***************************************************************************)
(* Program constants.                                                      *)
(***************************************************************************)
NULL == 0
WAITING == 0
CONNECTING == 1
PLAYING == 2
PAUSED == 3
STOPPING == 4
maxReconnectAttempts == 5
NORMAL_CLOSURE == 1000
ABNORMAL_CLOSURE == 1006

STATES == {WAITING, CONNECTING, PLAYING, PAUSED, STOPPING}

TITLES ==
  << "Let's speak", "Connecting to server", "I'm listening",
     "Taking break", "Disconnecting" >>

MaxStreams == MaxPendingStarts + 1   \* capture streams open at one time
SessionIds == 1..MaxSessionId
CloseCodes == {NORMAL_CLOSURE, ABNORMAL_CLOSURE}
Values == {"", "x"}    \* an unselected and a selected form value

VARIABLES
  state, title,                      \* State.state, State.title
  config,                            \* the selections read by startSession()
  sessionId,                         \* SessionManager.sessionId
  playPc, stopPc,                    \* position of the pending play()/stop()
  socket,                            \* readyState of WebSocketHandler.socket
  closing,                           \* replaced sockets, by pending close code
  isConnected, reconnectAttempts,    \* WebSocketHandler fields
  timers,                            \* pending setTimeout(connect) calls
  mediaRecorder, isRecording,        \* AudioRecorder fields
  pendingStarts, openStreams,        \* pending getUserMedia, open streams
  lastOp,                            \* the handler that ran in the last step
  emitted,                           \* states passed to setState in that step
  notes,                             \* notificator calls of that step's handler
  issued,                            \* requests / commands sent in that step
  received,                          \* the frame a socket delivered in that step
  notified,                          \* _notifyListeners calls of that step
  returned,                          \* what the sends of that step returned
  reopens,                           \* connect() calls made by the reconnect
                                     \* timer since the last onopen
  unit                               \* what the parts followed on their own
                                     \* hold: a record of the fields below

ctlVars == << state, title, sessionId, playPc, stopPc >>
wsVars == << socket, closing, isConnected, reconnectAttempts, timers >>
recVars == << mediaRecorder, isRecording, pendingStarts, openStreams >>
outVars ==
  << lastOp, config, emitted, notes, issued, received, notified, returned >>
ghostVars == << reopens >>
vars == << ctlVars, wsVars, recVars, outVars, ghostVars, unit >>

\* The fields of unit.  The handlers of the session, the channel and the
\* recorder read and write none of them.
fullSentences == unit.fullSentences        \* TranscribeView.fullSentences
buildingSentence == unit.buildingSentence  \* TranscribeView.buildingSentence
viewText == unit.viewText                  \* TranscribeView.view.textContent
heard == unit.heard            \* data.text of the event the view handled
abandoned == unit.abandoned    \* pending getUserMedia calls of starts made
                               \* before the last stopRecording()
oldStreams == unit.oldStreams  \* open streams of starts made before it
recorderSource == unit.recorderSource  \* the file AudioRecorder is from
captured == unit.captured      \* dataavailable events with data so far
reading == unit.reading        \* chunks whose FileReader is still reading
sent == unit.sent              \* chunks whose frame went to the channel
arg == unit.arg                \* the input of a function applied on its own
res == unit.res                \* and its result
managerSource == unit.managerSource  \* the AudioDeviceManager class loaded
devices == unit.devices              \* AudioDeviceManager.devices
deviceGroups == unit.deviceGroups    \* AudioDeviceManager.deviceGroups
selectedDeviceId == unit.selectedDeviceId  \* ... .selectedDeviceId
selectedDevice == unit.selectedDevice      \* ... .selectedDevice
options == unit.options        \* the option values of this.deviceSelect

NoSocket == "null"   \* this.socket === null

----------------------------------------------------------------------------
(***************************************************************************)
(* State (src/unnamed/part_000)                                            *)
(***************************************************************************)

\* a stateChanged listener that shows the title of the state before
TitleOf_OfWaiting(s) == TITLES[WAITING + 1]

\* setState + the stateChanged listener of the constructor
TitleOf(s) == TITLES[s + 1]

\* a play() that also acts while a session is being opened
PlayGuard_AlsoConnecting(s) == s \in {WAITING, CONNECTING, PAUSED}

\* play(): if (![WAITING, PAUSED].includes(this.state)) return;
PlayGuard(s) == s \in {WAITING, PAUSED}

\* a pause() that also acts while the session is being opened
PauseGuard_AlsoConnecting(s) == s \in {CONNECTING, PLAYING}

\* pause(): if (this.state !== PLAYING) return;
PauseGuard(s) == s = PLAYING

\* a stop() that also tears a streaming session down
StopGuard_AlsoPlaying(s) == s \in {PLAYING, PAUSED}

\* stop(): if (this.state !== PAUSED) return;
StopGuard(s) == s = PAUSED

\* a play() that does not go back to WAITING when startSession() failed
StateAfterStart_NoReset(success) == IF success THEN PLAYING ELSE CONNECTING

\* play(): the state set after startSession() resolved
StateAfterStart(success) == IF success THEN PLAYING ELSE WAITING

\* stop(): the state after stopSession() resolved (false: no setState)
StateAfterStop(success) == IF success THEN WAITING ELSE STOPPING

\* stop(): the setState calls made after stopSession() resolved
EmittedAfterStop(success) == IF success THEN << WAITING >> ELSE << >>

----------------------------------------------------------------------------
(***************************************************************************)
(* SessionManager (src/unnamed/part_003)                                   *)
(***************************************************************************)

\* startSession(): the selections it reads from State
Selections(dev, src, dst, s2t) ==
  [selectedAudioCaptureDevice |-> dev, srcLanguage |-> src,
   dstLanguage |-> dst, selectedS2tModel |-> s2t]

NoConfig == Selections("", "", "", "")

\* notificator.error(scope, message) / notificator.success(scope, message)
Error(text) == [level |-> "error", scope |-> "Session", text |-> text]
Success(text) == [level |-> "success", scope |-> "Session", text |-> text]

\* notificator.error / notificator.success of the channel's listeners
WsError(text) == [level |-> "error", scope |-> "WebSocket", text |-> text]
WsSuccess(text) == [level |-> "success", scope |-> "WebSocket", text |-> text]

\* the checks with the test of the model inverted
ValidationErrors_Inverted(dev, src, dst, s2t) ==
  IF dev = "" THEN << Error("No audio capture device selected.") >>
  ELSE IF src = "" \/ dst = ""
    THEN << Error("Source and destination languages must be selected.") >>
  ELSE IF s2t # "" THEN << Error("No Speech-to-text model selected.") >>
  ELSE << >>

\* startSession(): the three checks, each returning false at once
ValidationErrors(dev, src, dst, s2t) ==
  IF dev = "" THEN << Error("No audio capture device selected.") >>
  ELSE IF src = "" \/ dst = ""
    THEN << Error("Source and destination languages must be selected.") >>
  ELSE IF s2t = "" THEN << Error("No Speech-to-text model selected.") >>
  ELSE << >>

\* startSession(): what it reports when the request did not succeed
StartFailureNotes(outcome) ==
  IF outcome = "throw"
    THEN << Error("Error starting session") >>
    ELSE << Error("Error starting session: message") >>

\* startSession(): the "connection" and the "error" listener it registers.
\* The "error" listener reads .message of { error: event }, which has none.
ListenerNote(n) ==
  IF n.kind = "error" THEN WsError("Error: undefined")
  ELSE IF n.status = "connected"
    THEN WsSuccess("WebSocket connection established successfully.")
    ELSE WsError("WebSocket connection failed.")

\* What the listeners report for the notifications of one socket event.
\* Every startSession() that succeeded has registered the two listeners
\* once more, and every copy reports the same: notes keeps one copy.
ListenerNotes(ns) ==
  LET own == SelectSeq(ns, LAMBDA n : n.kind \in {"connection", "error"})
  IN [k \in 1..Len(own) |-> ListenerNote(own[k])]

\* a startSession() that does not keep the id of the response
StoredSessionId_Dropped(dataSessionId) == NULL

\* startSession(): this.sessionId = data.session_id
StoredSessionId(dataSessionId) == dataSessionId

\* stopSession(): this.sessionId = null
ClearedSessionId == NULL

----------------------------------------------------------------------------
(***************************************************************************)
(* WebSocketHandler (src/static/js/websocket-handler.js)                   *)
(***************************************************************************)

\* isSocketReady(): this.socket && this.socket.readyState === OPEN
IsSocketReady(sk) == sk = "OPEN"

\* disconnect(): socket.close(1000) on the current socket.  A socket that
\* is still connecting fails (its close event carries 1006), an open one
\* closes cleanly (1000), a closed one has no event left.
CodeOfClose(sk) ==
  IF sk = "CONNECTING" THEN ABNORMAL_CLOSURE ELSE NORMAL_CLOSURE

ClosingAfterDisconnect(sk, cl) ==
  IF sk \in {"CONNECTING", "OPEN"}
    THEN [cl EXCEPT ![CodeOfClose(sk)] = @ + 1]
    ELSE cl

\* disconnect(): this.socket afterwards
SocketAfterDisconnect(sk) == NoSocket

\* disconnect(): this.isConnected afterwards
ConnectedAfterDisconnect(sk, c) == IF sk # NoSocket THEN FALSE ELSE c

NumClosing(cl) == cl[NORMAL_CLOSURE] + cl[ABNORMAL_CLOSURE]

CanDisconnect(sk, cl) ==
  sk \in {"CONNECTING", "OPEN"} => NumClosing(cl) < MaxClosing

\* connect(url): disconnect() when there is a socket, then new WebSocket(url)
SocketAfterConnect(sk) == "CONNECTING"

\* onclose: if (event.code !== 1000 && attempts < maxReconnectAttempts)
ShouldReconnect(code, attempts) ==
  code # NORMAL_CLOSURE /\ attempts < maxReconnectAttempts

\* _notifyListeners(eventType, data): the event type, and the status and
\* the close code of the data where it has them
Notification(kind, status, code) ==
  [kind |-> kind, status |-> status, code |-> code]

\* onopen: _notifyListeners('connection', { status: 'connected' })
OpenNotifications == << Notification("connection", "connected", NULL) >>

\* onerror, which a failed connection fires ahead of its close event, and
\* onclose: _notifyListeners('error', ...), _notifyListeners('connection',
\* { status: 'disconnected', code, reason })
CloseNotifications(code) ==
  (IF code = NORMAL_CLOSURE
     THEN << >>
     ELSE << Notification("error", "", NULL) >>)
  \o << Notification("connection", "disconnected", code) >>

\* A frame the socket delivers: binary (a Blob), or a text given by its
\* tokens.
Blob == [blob |-> TRUE, text |-> << >>]
Text(tokens) == [blob |-> FALSE, text |-> tokens]

\* the text of an object with one member, and the same cut off
Obj(key, value) == << "{", key, ":", value, "}" >>
Truncated(key) == << "{", key, ":" >>

Punctuation == {"{", "}", ":"}

\* JSON.parse(event.data) returns: the text is an object with no member
\* or with one; on any other text it throws
Parses(t) ==
  /\ Len(t) \in {2, 5}
  /\ t[1] = "{"
  /\ t[Len(t)] = "}"
  /\ Len(t) = 5 => (t[3] = ":" /\ {t[2], t[4]} \cap Punctuation = {})

\* data.type of the parsed object ("": the object has none)
TypeOf(t) == IF Len(t) = 5 /\ t[2] = "type" THEN t[4] ELSE ""

SttEvents ==
  {"recording_start", "recording_stop", "vad_detect_start",
   "vad_detect_stop", "transcription_start", "start_turn_detection",
   "stop_turn_detection"}

\* an onmessage whose catch tells the "error" subscribers of the bad text
Dispatch_ParseErrorNotified(f) ==
  IF f.blob THEN << Notification("audio", "", NULL) >>
  ELSE IF ~Parses(f.text) THEN << Notification("error", "", NULL) >>
  ELSE IF TypeOf(f.text) \in {"realtime", "transcription"}
    THEN << Notification("transcription", "", NULL) >>
  ELSE IF TypeOf(f.text) \in {"fullSentence", "translation"} \cup SttEvents
    THEN << Notification(TypeOf(f.text), "", NULL) >>
  ELSE << >>

\* onmessage: the _notifyListeners calls it makes for a frame.  A text
\* that does not parse is logged by the catch, a text without a type or
\* with an unknown one is skipped.
Dispatch(f) ==
  IF f.blob THEN << Notification("audio", "", NULL) >>
  ELSE IF ~Parses(f.text) THEN << >>
  ELSE IF TypeOf(f.text) \in {"realtime", "transcription"}
    THEN << Notification("transcription", "", NULL) >>
  ELSE IF TypeOf(f.text) \in {"fullSentence", "translation"} \cup SttEvents
    THEN << Notification(TypeOf(f.text), "", NULL) >>
  ELSE << >>

\* sendCommand(command): what goes out on the wire
SendCommand(conn, cmd) == IF conn THEN << cmd >> ELSE << >>

\* sendCommand(command): what the caller gets back.  The bare `return;` of
\* the not-connected branch and the end of the function both give undefined.
SendResult(conn) == "undefined"

\* the frames a server sends in the model
Frames ==
  { Blob,
    Text(<< >>),
    Text(Truncated("type")),
    Text(<< "{", "}" >>),
    Text(Obj("text", "hello")),
    Text(Obj("type", "pong")) }
  \cup { Text(Obj("type", k)) :
           k \in {"realtime", "transcription", "fullSentence", "translation",
                  "recording_start"} }

----------------------------------------------------------------------------
(***************************************************************************)
(* AudioRecorder (src/unnamed/part_005)                                    *)
(***************************************************************************)

\* a stopRecording() that only looks for a recorder
StopRecordingGuard_RecorderOnly(mr, rec) == mr

\* stopRecording(): if (this.mediaRecorder && this.isRecording)
StopRecordingGuard(mr, rec) == mr /\ rec

\* a stopRecording() that leaves the recorder running
RecordingAfterStop_Skipped(mr, rec) == rec

\* processAudioChunk(audioChunk): what goes out on the socket
SendAudio(ready) == IF ready THEN << "audio" >> ELSE << >>

\* What the recorder gets back for a chunk.  ondataavailable calls
\* processAudioChunk only if isSocketReady(), and processAudioChunk has no
\* return statement.
ChunkResult(ready) == IF ready THEN << "undefined" >> ELSE << >>

RecordingAfterStop(mr, rec) == IF StopRecordingGuard(mr, rec) THEN FALSE ELSE rec

StreamsAfterStop(mr, rec, n) == IF StopRecordingGuard(mr, rec) THEN n - 1 ELSE n

----------------------------------------------------------------------------
InitProgram ==
  /\ state = WAITING
  /\ title = TitleOf(WAITING)
  /\ sessionId = NULL
  /\ playPc = "idle"
  /\ stopPc = "idle"
  /\ socket = NoSocket
  /\ closing = [c \in CloseCodes |-> 0]
  /\ isConnected = FALSE
  /\ reconnectAttempts = 0
  /\ timers = 0
  /\ mediaRecorder = FALSE
  /\ isRecording = FALSE
  /\ pendingStarts = 0
  /\ openStreams = 0
  /\ lastOp = "init"
  /\ config = NoConfig
  /\ emitted = << >>
  /\ notes = << >>
  /\ issued = << >>
  /\ received = << >>
  /\ notified = << >>
  /\ returned = << >>
  /\ reopens = 0

\* an empty view, no chunk captured yet (this.audioChunks = []), no function
\* applied; the handlers of Next are those of the AudioRecorder of
\* src/unnamed/part_005
NoChunks ==
  [fullSentences |-> << >>, buildingSentence |-> << >>, viewText |-> << >>,
   heard |-> << >>, abandoned |-> 0, oldStreams |-> 0,
   recorderSource |-> "part_005", captured |-> 0, reading |-> {},
   sent |-> << >>, arg |-> NULL, res |-> NULL]

Init ==
  /\ InitProgram
  /\ unit = NoChunks

----------------------------------------------------------------------------
\* the name of a step that settles a request, with the way it settled
ResponseOp(op, outcome) ==
  CASE op = "playResponse" /\ outcome = "success" -> "playResponse.success"
    [] op = "playResponse" /\ outcome = "error" -> "playResponse.error"
    [] op = "playResponse" /\ outcome = "throw" -> "playResponse.throw"
    [] op = "stopResponse" /\ outcome = "resolved" -> "stopResponse.resolved"
    [] op = "stopResponse" /\ outcome = "rejected" -> "stopResponse.rejected"

\* a step in which no socket event is handled and no command is sent
NoChannelIO ==
  /\ received' = << >>
  /\ notified' = << >>
  /\ returned' = << >>

Quiet ==
  /\ config' = NoConfig
  /\ emitted' = << >>
  /\ notes' = << >>
  /\ issued' = << >>
  /\ NoChannelIO

----------------------------------------------------------------------------
(***************************************************************************)
(* State.play() up to the pending fetch of startSession().                 *)
(*                                                                         *)
(* The four selections are plain fields of State, written by its setters   *)
(* (setAudioCaptureDevice, setSourceLanguage, setDestinationLanguage,      *)
(* setSpeechToTextModel) and read by startSession() alone.  A setter call  *)
(* commutes with every other handler, so the selections in force when      *)
(* startSession() runs are inputs of the step; config records the ones     *)
(* the last step read.                                                     *)
(***************************************************************************)
PlayIgnored ==
  /\ ~PlayGuard(state)
  /\ lastOp' = "play"
  /\ Quiet
  /\ UNCHANGED << ctlVars, wsVars, recVars >>

Play(dev, src, dst, s2t) ==
  /\ PlayGuard(state)
  /\ lastOp' = "play"
  /\ config' = Selections(dev, src, dst, s2t)
  /\ LET errs == ValidationErrors(dev, src, dst, s2t)
     IN IF errs # << >>
          THEN \* startSession() returned false without a request
               /\ state' = StateAfterStart(FALSE)
               /\ emitted' = << CONNECTING, StateAfterStart(FALSE) >>
               /\ notes' = errs
               /\ issued' = << >>
               /\ UNCHANGED playPc
          ELSE \* fetch("/start_session") is pending
               /\ state' = CONNECTING
               /\ emitted' = << CONNECTING >>
               /\ notes' = << >>
               /\ issued' = << "start_session" >>
               /\ playPc' = "fetch"
  /\ title' = TitleOf(state')
  /\ NoChannelIO
  /\ UNCHANGED << sessionId, stopPc, wsVars, recVars >>

(***************************************************************************)
(* The pending fetch of startSession() settles: it throws (fetch or        *)
(* response.json() rejects), or the backend answers with an error status,  *)
(* or with success, a session id and the channel address.                  *)
(***************************************************************************)
PlayResponse(outcome, id) ==
  /\ playPc = "fetch"
  /\ playPc' = "idle"
  /\ lastOp' = ResponseOp("playResponse", outcome)
  /\ issued' = << >>
  /\ IF outcome = "success"
       THEN /\ CanDisconnect(socket, closing)
            /\ sessionId' = StoredSessionId(id)
            /\ closing' = ClosingAfterDisconnect(socket, closing)
            /\ socket' = SocketAfterConnect(socket)
            /\ isConnected' = ConnectedAfterDisconnect(socket, isConnected)
            /\ notes' = << Success("Session started successfully.") >>
            /\ state' = StateAfterStart(TRUE)
            /\ UNCHANGED << reconnectAttempts, timers >>
       ELSE /\ notes' = StartFailureNotes(outcome)
            /\ state' = StateAfterStart(FALSE)
            /\ UNCHANGED << sessionId, wsVars >>
  /\ title' = TitleOf(state')
  /\ emitted' = << state' >>
  /\ config' = NoConfig
  /\ NoChannelIO
  /\ UNCHANGED << stopPc, recVars >>

(***************************************************************************)
(* State.pause()                                                           *)
(***************************************************************************)
Pause ==
  /\ lastOp' = "pause"
  /\ notes' = << >>
  /\ issued' = << >>
  /\ IF PauseGuard(state)
       THEN /\ state' = PAUSED
            /\ title' = TitleOf(state')
            /\ emitted' = << PAUSED >>
       ELSE /\ emitted' = << >>
            /\ UNCHANGED << state, title >>
  /\ config' = NoConfig
  /\ NoChannelIO
  /\ UNCHANGED << sessionId, playPc, stopPc, wsVars, recVars >>

(***************************************************************************)
(* State.stop() up to the pending fetch of stopSession().                  *)
(***************************************************************************)
Stop ==
  /\ lastOp' = "stop"
  /\ notes' = << >>
  /\ IF ~StopGuard(state)
       THEN /\ emitted' = << >>
            /\ issued' = << >>
            /\ UNCHANGED << ctlVars >>
       ELSE /\ state' = STOPPING
            /\ title' = TitleOf(state')
            /\ emitted' = << STOPPING >>
            /\ IF sessionId = NULL
                 THEN \* stopSession() returned false: no setState follows
                      /\ issued' = << >>
                      /\ UNCHANGED stopPc
                 ELSE /\ issued' = << "stop_session" >>
                      /\ stopPc' = "fetch"
            /\ UNCHANGED << sessionId, playPc >>
  /\ config' = NoConfig
  /\ NoChannelIO
  /\ UNCHANGED << wsVars, recVars >>

(***************************************************************************)
(* The pending fetch of stopSession() settles: it is resolved (whatever    *)
(* the HTTP status) or rejected.                                           *)
(***************************************************************************)
StopResponse(outcome) ==
  /\ stopPc = "fetch"
  /\ stopPc' = "idle"
  /\ lastOp' = ResponseOp("stopResponse", outcome)
  /\ issued' = << >>
  /\ IF outcome = "resolved"
       THEN /\ CanDisconnect(socket, closing)
            /\ closing' = ClosingAfterDisconnect(socket, closing)
            /\ socket' = SocketAfterDisconnect(socket)
            /\ isConnected' = ConnectedAfterDisconnect(socket, isConnected)
            /\ isRecording' = RecordingAfterStop(mediaRecorder, isRecording)
            /\ openStreams' =
                 StreamsAfterStop(mediaRecorder, isRecording, openStreams)
            /\ notes' = << Success("Session stopped successfully.") >>
            /\ sessionId' = ClearedSessionId
            /\ UNCHANGED << reconnectAttempts, timers, mediaRecorder,
                            pendingStarts >>
       ELSE /\ notes' = << Error("Error stopping session") >>
            /\ UNCHANGED << sessionId, wsVars, recVars >>
  /\ state' = StateAfterStop(outcome = "resolved")
  /\ title' = TitleOf(state')
  /\ emitted' = EmittedAfterStop(outcome = "resolved")
  /\ config' = NoConfig
  /\ NoChannelIO
  /\ UNCHANGED << playPc >>

----------------------------------------------------------------------------
(***************************************************************************)
(* Socket events of WebSocketHandler.connect().                            *)
(***************************************************************************)

\* onclose: this.reconnectAttempts afterwards
AttemptsAfterClose(code, attempts) ==
  IF ShouldReconnect(code, attempts) THEN attempts + 1 ELSE attempts

\* onclose: the pending setTimeout(() => this.connect(url), 2000) calls
TimersAfterClose(code, attempts, t) ==
  IF ShouldReconnect(code, attempts) THEN t + 1 ELSE t

\* onerror (a failed connection only), then onclose, with a close code
OnClose(code) ==
  /\ ShouldReconnect(code, reconnectAttempts) => timers < MaxTimers
  /\ isConnected' = FALSE
  /\ reconnectAttempts' = AttemptsAfterClose(code, reconnectAttempts)
  /\ timers' = TimersAfterClose(code, reconnectAttempts, timers)
  /\ notified' = CloseNotifications(code)
  /\ notes' = ListenerNotes(notified')
  /\ emitted' = << >>
  /\ issued' = << >>
  /\ received' = << >>
  /\ returned' = << >>
  /\ config' = NoConfig
  /\ UNCHANGED << ctlVars, recVars >>

CloseOp(code) ==
  IF code = NORMAL_CLOSURE THEN "onclose.normal" ELSE "onclose.abnormal"

\* an onopen that leaves the counter of reconnect attempts as it is
AttemptsAfterOpen_Kept(attempts) == attempts

\* onopen: this.reconnectAttempts = 0
AttemptsAfterOpen(attempts) == 0

\* onopen of the current socket
SocketOpened ==
  /\ socket = "CONNECTING"
  /\ lastOp' = "onopen"
  /\ socket' = "OPEN"
  /\ isConnected' = TRUE
  /\ reconnectAttempts' = AttemptsAfterOpen(reconnectAttempts)
  /\ notified' = OpenNotifications
  /\ notes' = ListenerNotes(notified')
  /\ emitted' = << >>
  /\ issued' = << >>
  /\ received' = << >>
  /\ returned' = << >>
  /\ config' = NoConfig
  /\ UNCHANGED << closing, timers, ctlVars, recVars >>

\* the server or the network ends the current socket, with a close code
SocketDropped(code) ==
  /\ socket \in {"CONNECTING", "OPEN"}
  /\ lastOp' = CloseOp(code)
  /\ socket' = "CLOSED"
  /\ OnClose(code)
  /\ UNCHANGED closing

\* the close event of a socket that disconnect() closed
CloseDelivered(code) ==
  /\ closing[code] > 0
  /\ lastOp' = CloseOp(code)
  /\ closing' = [closing EXCEPT ![code] = @ - 1]
  /\ OnClose(code)
  /\ UNCHANGED socket

\* setTimeout(() => this.connect(url), 2000) fires
TimerFired ==
  /\ timers > 0
  /\ CanDisconnect(socket, closing)
  /\ lastOp' = "timer"
  /\ timers' = timers - 1
  /\ closing' = ClosingAfterDisconnect(socket, closing)
  /\ socket' = SocketAfterConnect(socket)
  /\ isConnected' = ConnectedAfterDisconnect(socket, isConnected)
  /\ Quiet
  /\ UNCHANGED << reconnectAttempts, ctlVars, recVars >>

\* onmessage of the current socket, which delivers frames while it is open.
\* The "translation" listener of startSession() calls
\* state.pushTranslatedToken, which State does not have: it throws, and
\* _notifyListeners catches and logs it.
OnMessage(f) ==
  /\ socket = "OPEN"
  /\ lastOp' = "onmessage"
  /\ received' = << f >>
  /\ notified' = Dispatch(f)
  /\ notes' = ListenerNotes(notified')
  /\ emitted' = << >>
  /\ issued' = << >>
  /\ returned' = << >>
  /\ config' = NoConfig
  /\ UNCHANGED << ctlVars, wsVars, recVars >>

----------------------------------------------------------------------------
(***************************************************************************)
(* SessionManager.startListening() / stopListening() and the recorder.     *)
(***************************************************************************)
StartListening ==
  /\ lastOp' = "startListening"
  /\ emitted' = << >>
  /\ notes' = << >>
  /\ IF ~IsSocketReady(socket)
       THEN /\ issued' = << >>
            /\ returned' = << >>
            /\ UNCHANGED pendingStarts
       ELSE IF isRecording
         THEN \* startRecording() returns at once
              /\ issued' = SendCommand(isConnected, "start_listening")
              /\ returned' = << SendResult(isConnected) >>
              /\ UNCHANGED pendingStarts
         ELSE \* getUserMedia() is pending
              /\ pendingStarts < MaxPendingStarts
              /\ pendingStarts' = pendingStarts + 1
              /\ issued' = << >>
              /\ returned' = << >>
  /\ received' = << >>
  /\ notified' = << >>
  /\ config' = NoConfig
  /\ UNCHANGED << mediaRecorder, isRecording, openStreams, ctlVars, wsVars >>

\* a pending getUserMedia() settles
GetUserMediaDone(granted) ==
  /\ pendingStarts > 0
  /\ pendingStarts' = pendingStarts - 1
  /\ lastOp' = "getUserMedia"
  /\ emitted' = << >>
  /\ IF granted
       THEN /\ openStreams < MaxStreams
            /\ mediaRecorder' = TRUE
            /\ isRecording' = TRUE
            /\ openStreams' = openStreams + 1
            /\ notes' = << >>
            /\ issued' = SendCommand(isConnected, "start_listening")
            /\ returned' = << SendResult(isConnected) >>
       ELSE /\ notes' = << Error("Error accessing microphone") >>
            /\ issued' = << >>
            /\ returned' = << >>
            /\ UNCHANGED << mediaRecorder, isRecording, openStreams >>
  /\ received' = << >>
  /\ notified' = << >>
  /\ config' = NoConfig
  /\ UNCHANGED << ctlVars, wsVars >>

StopListening ==
  /\ lastOp' = "stopListening"
  /\ emitted' = << >>
  /\ notes' = << >>
  /\ IF IsSocketReady(socket)
       THEN /\ isRecording' = RecordingAfterStop(mediaRecorder, isRecording)
            /\ openStreams' =
                 StreamsAfterStop(mediaRecorder, isRecording, openStreams)
            /\ issued' = SendCommand(isConnected, "stop_listening")
            /\ returned' = << SendResult(isConnected) >>
       ELSE /\ issued' = << >>
            /\ returned' = << >>
            /\ UNCHANGED << isRecording, openStreams >>
  /\ received' = << >>
  /\ notified' = << >>
  /\ config' = NoConfig
  /\ UNCHANGED << mediaRecorder, pendingStarts, ctlVars, wsVars >>

\* mediaRecorder.ondataavailable with a chunk that is not empty
DataAvailable ==
  /\ isRecording
  /\ lastOp' = "dataavailable"
  /\ issued' = SendAudio(IsSocketReady(socket))
  /\ returned' = ChunkResult(IsSocketReady(socket))
  /\ emitted' = << >>
  /\ notes' = << >>
  /\ received' = << >>
  /\ notified' = << >>
  /\ config' = NoConfig
  /\ UNCHANGED << ctlVars, wsVars, recVars >>

----------------------------------------------------------------------------
(***************************************************************************)
(* The handlers, without and with the count of the connect() calls that    *)
(* the reconnect timer has made since the socket last opened.  The count   *)
(* is read by no handler.                                                  *)
(***************************************************************************)
ReopensAfter(op, n) ==
  IF op = "timer" THEN n + 1 ELSE IF op = "onopen" THEN 0 ELSE n

\* The handlers below read and write no field of TranscribeView; the view
\* is followed on its own, under SpecTranscript.
Elsewhere == UNCHANGED unit

Uncounted == UNCHANGED ghostVars /\ Elsewhere

Counted == reopens' = ReopensAfter(lastOp', reopens) /\ Elsewhere

Next ==
  \/ PlayIgnored /\ Uncounted
  \/ \E dev \in Values, src \in Values, dst \in Values, s2t \in Values :
       Play(dev, src, dst, s2t) /\ Uncounted
  \/ \E o \in {"throw", "error", "success"}, id \in SessionIds :
       PlayResponse(o, id) /\ Uncounted
  \/ Pause /\ Uncounted
  \/ Stop /\ Uncounted
  \/ \E o \in {"resolved", "rejected"} : StopResponse(o) /\ Uncounted
  \/ SocketOpened /\ Uncounted
  \/ \E c \in CloseCodes : SocketDropped(c) /\ Uncounted
  \/ \E c \in CloseCodes : CloseDelivered(c) /\ Uncounted
  \/ TimerFired /\ Uncounted
  \/ \E f \in Frames : OnMessage(f) /\ Uncounted
  \/ StartListening /\ Uncounted
  \/ \E g \in BOOLEAN : GetUserMediaDone(g) /\ Uncounted
  \/ StopListening /\ Uncounted
  \/ DataAvailable /\ Uncounted

NextReopens ==
  \/ PlayIgnored /\ Counted
  \/ \E dev \in Values, src \in Values, dst \in Values, s2t \in Values :
       Play(dev, src, dst, s2t) /\ Counted
  \/ \E o \in {"throw", "error", "success"}, id \in SessionIds :
       PlayResponse(o, id) /\ Counted
  \/ Pause /\ Counted
  \/ Stop /\ Counted
  \/ \E o \in {"resolved", "rejected"} : StopResponse(o) /\ Counted
  \/ SocketOpened /\ Counted
  \/ \E c \in CloseCodes : SocketDropped(c) /\ Counted
  \/ \E c \in CloseCodes : CloseDelivered(c) /\ Counted
  \/ TimerFired /\ Counted
  \/ \E f \in Frames : OnMessage(f) /\ Counted
  \/ StartListening /\ Counted
  \/ \E g \in BOOLEAN : GetUserMediaDone(g) /\ Counted
  \/ StopListening /\ Counted
  \/ DataAvailable /\ Counted

Spec == Init /\ [][Next]_vars

SpecReopens == Init /\ [][NextReopens]_vars

----------------------------------------------------------------------------
(***************************************************************************)
(* TranscribeView (src/static/js/transcribe.js, lines 1-41).  Texts are    *)
(* sequences of characters.  The handlers are the listeners the view       *)
(* registers with the channel; they touch the fields of the view only.     *)
(* The second TranscribeView of the file (lines 42-86) keeps the two       *)
(* buffers in the same way; its render() builds the same text and drops    *)
(* it.                                                                     *)
(***************************************************************************)
he == << "h", "e" >>
hello == << "h", "e", "l", "l", "o" >>
helloWorld == hello \o << " ", "w", "o", "r", "l", "d" >>
bye == << "b", "y", "e" >>

\* data.text of the events: no text, and the texts above
Texts == {<< >>, he, hello, helloWorld, bye}

\* if (data && data.text): the empty string is falsy
HasText(text) == text # << >>

\* handleTranscription: this.buildingSentence afterwards
BuildingAfterPartial(building, text) ==
  IF HasText(text) THEN text ELSE building

\* a finalizeSentence that keeps the last sentence only
FullAfterFinal_Replaced(full, text) == IF HasText(text) THEN text ELSE full

\* finalizeSentence: this.fullSentences afterwards
FullAfterFinal(full, text) == IF HasText(text) THEN full \o text ELSE full

\* finalizeSentence: this.buildingSentence afterwards
BuildingAfterFinal(building, text) ==
  IF HasText(text) THEN << >> ELSE building

\* render(): fullSentences.concat(' ', buildingSentence).concat('...')
Rendering(full, building) ==
  full \o << " " >> \o building \o << ".", ".", "." >>

\* handleTranscription and finalizeSentence call render() inside their if
ViewAfterEvent(text, full, building, view) ==
  IF HasText(text) THEN Rendering(full, building) ELSE view

\* handleConnection: this.view.textContent = '' on status 'connected'
ViewAfterConnection(status, view) ==
  IF status = "connected" THEN << >> ELSE view

ViewIdle ==
  UNCHANGED << ctlVars, wsVars, recVars, ghostVars, config, emitted, notes,
               issued, received, notified, returned >>

HandleTranscription(text) ==
  /\ lastOp' = "handleTranscription"
  /\ unit' =
       [unit EXCEPT
          !.heard = text,
          !.buildingSentence = BuildingAfterPartial(buildingSentence, text),
          !.viewText =
            ViewAfterEvent(text, fullSentences,
                           BuildingAfterPartial(buildingSentence, text),
                           viewText)]
  /\ ViewIdle

FinalizeSentence(text) ==
  /\ Len(fullSentences) + Len(text) <= MaxTranscript
  /\ lastOp' = "finalizeSentence"
  /\ unit' =
       [unit EXCEPT
          !.heard = text,
          !.fullSentences = FullAfterFinal(fullSentences, text),
          !.buildingSentence = BuildingAfterFinal(buildingSentence, text),
          !.viewText =
            ViewAfterEvent(text, FullAfterFinal(fullSentences, text),
                           BuildingAfterFinal(buildingSentence, text),
                           viewText)]
  /\ ViewIdle

HandleConnection(status) ==
  /\ lastOp' = "handleConnection"
  /\ unit' =
       [unit EXCEPT
          !.heard = << >>,
          !.viewText = ViewAfterConnection(status, viewText)]
  /\ ViewIdle

NextTranscript ==
  \/ \E text \in Texts : HandleTranscription(text)
  \/ \E text \in Texts : FinalizeSentence(text)
  \/ \E status \in {"connected", "disconnected"} : HandleConnection(status)

SpecTranscript == Init /\ [][NextTranscript]_vars

----------------------------------------------------------------------------
(***************************************************************************)
(* The way from the channel to the view: onmessage                         *)
(* (src/static/js/websocket-handler.js, lines 83-111) notifies the         *)
(* subscribers of a kind, and the view subscribed in its constructor       *)
(* (src/static/js/transcribe.js, lines 7-9 and 47-55).  A message is its   *)
(* data.type and its data.text; unit.arg keeps the message delivered.      *)
(***************************************************************************)
Message(type, text) == [type |-> type, text |-> text]

MessageTypes ==
  {"realtime", "transcription", "fullSentence", "translation", "pong"}

\* the handler the view subscribed for a kind
ViewListener(kind) ==
  CASE kind = "realtime" -> "handleTranscription"
    [] kind = "fullSentence" -> "finalizeSentence"
    [] kind = "connection" -> "handleConnection"
    [] OTHER -> "none"

\* the view after the handler has run on { text }
ViewAfter(handler, text, u) ==
  CASE handler = "handleTranscription" ->
         [u EXCEPT
            !.heard = text,
            !.buildingSentence = BuildingAfterPartial(u.buildingSentence, text),
            !.viewText =
              ViewAfterEvent(text, u.fullSentences,
                             BuildingAfterPartial(u.buildingSentence, text),
                             u.viewText)]
    [] handler = "finalizeSentence" ->
         [u EXCEPT
            !.heard = text,
            !.fullSentences = FullAfterFinal(u.fullSentences, text),
            !.buildingSentence = BuildingAfterFinal(u.buildingSentence, text),
            !.viewText =
              ViewAfterEvent(text, FullAfterFinal(u.fullSentences, text),
                             BuildingAfterFinal(u.buildingSentence, text),
                             u.viewText)]
    [] OTHER -> u

\* _notifyListeners for the notifications of one message, in turn
RECURSIVE ViewAfterAll(_, _, _)
ViewAfterAll(notifications, text, u) ==
  IF notifications = << >>
    THEN u
    ELSE ViewAfterAll(Tail(notifications), text,
                      ViewAfter(ViewListener(Head(notifications).kind),
                                text, u))

\* onmessage for { type, text }
Deliver(type, text) ==
  /\ Len(fullSentences) + Len(text) <= MaxTranscript
  /\ lastOp' = "deliver"
  /\ unit' =
       [ViewAfterAll(Dispatch(Text(Obj("type", type))), text,
                     [unit EXCEPT !.heard = << >>])
          EXCEPT !.arg = Message(type, text)]
  /\ ViewIdle

NextRouting == \E type \in MessageTypes, text \in Texts : Deliver(type, text)

SpecRouting == Init /\ [][NextRouting]_vars

----------------------------------------------------------------------------
(***************************************************************************)
(* AudioRecorder on its own (src/unnamed/part_005, lines 13-60; the same   *)
(* in src/static/js/audio-recorder.js, lines 13-58): startRecording() and  *)
(* stopRecording() called in any order, with the getUserMedia calls        *)
(* settling in any order.  They read and write the recorder only, so the   *)
(* recorder is followed here with more calls pending than under Spec.      *)
(* The fields abandoned and oldStreams of unit are read by no handler.     *)
(***************************************************************************)
\* getUserMedia calls pending together, and streams open together, when the
\* recorder is followed on its own
MaxStarts == MaxStreams + 1

RecorderIdle ==
  UNCHANGED << ctlVars, wsVars, reopens, config, emitted, notes, issued,
               received, notified, returned >>

\* startRecording() up to its await: if (this.isRecording) return;
StartRecording ==
  /\ lastOp' = "startRecording"
  /\ IF isRecording
       THEN UNCHANGED pendingStarts
       ELSE /\ pendingStarts < MaxStarts
            /\ pendingStarts' = pendingStarts + 1
  /\ UNCHANGED << mediaRecorder, isRecording, openStreams, unit >>
  /\ RecorderIdle

\* a pending getUserMedia settles: of a start made before the last
\* stopRecording() (old) or after it; it hands over a stream, or it rejects
\* and startRecording() rethrows
Acquired(granted, old) ==
  /\ IF old THEN abandoned > 0 ELSE pendingStarts > abandoned
  /\ pendingStarts' = pendingStarts - 1
  /\ lastOp' = "getUserMedia"
  /\ IF granted
       THEN /\ openStreams < MaxStarts
            /\ mediaRecorder' = TRUE
            /\ isRecording' = TRUE
            /\ openStreams' = openStreams + 1
       ELSE UNCHANGED << mediaRecorder, isRecording, openStreams >>
  /\ unit' =
       [unit EXCEPT
          !.abandoned = IF old THEN abandoned - 1 ELSE abandoned,
          !.oldStreams =
            IF granted /\ old THEN oldStreams + 1 ELSE oldStreams]
  /\ RecorderIdle

StopOp(mr, rec) ==
  IF StopRecordingGuard(mr, rec)
    THEN "stopRecording.stopped" ELSE "stopRecording.skipped"

\* stopRecording()
StopRecording ==
  /\ lastOp' = StopOp(mediaRecorder, isRecording)
  /\ isRecording' = RecordingAfterStop(mediaRecorder, isRecording)
  /\ openStreams' = StreamsAfterStop(mediaRecorder, isRecording, openStreams)
  /\ unit' =
       [unit EXCEPT
          !.abandoned = pendingStarts,
          !.oldStreams =
            StreamsAfterStop(mediaRecorder, isRecording, openStreams)]
  /\ UNCHANGED << mediaRecorder, pendingStarts >>
  /\ RecorderIdle

NextRecorder ==
  \/ StartRecording
  \/ \E granted \in BOOLEAN, old \in BOOLEAN : Acquired(granted, old)
  \/ StopRecording

SpecRecorder == Init /\ [][NextRecorder]_vars

----------------------------------------------------------------------------
(***************************************************************************)
(* The chunks of the MediaRecorder on their way to the channel.  The two   *)
(* AudioRecorder files differ: src/unnamed/part_005 builds and sends the   *)
(* frame inside ondataavailable, if the socket is ready (lines 30-38,      *)
(* 62-85); src/static/js/audio-recorder.js starts a FileReader of its own  *)
(* for every chunk and builds and hands over the frame in its onloadend    *)
(* (lines 29-36, 60-94).  Readers of different chunks finish in any order. *)
(* A chunk is named by its number in capture order.                        *)
(***************************************************************************)
RecorderSources == {"part_005", "audio-recorder.js"}

\* an AudioRecorder that hands the frame to the socket in onloadend
SendAudioData_Defined(chunk) == << chunk >>

\* this.websocketHandler.sendAudioData(combined.buffer): no WebSocketHandler
\* has a sendAudioData, the call throws a TypeError and no frame goes out
SendAudioData(chunk) == << >>

\* this.websocketHandler.getWebSocket().send(message), under isSocketReady()
SendMessage(ready, chunk) == IF ready THEN << chunk >> ELSE << >>

ChunksIdle ==
  UNCHANGED << ctlVars, wsVars, recVars, ghostVars, config, emitted, notes,
               issued, received, notified, returned >>

\* mediaRecorder.ondataavailable with event.data.size > 0
OnDataAvailable(ready) ==
  /\ captured < MaxChunks
  /\ lastOp' = "ondataavailable"
  /\ unit' =
       IF recorderSource = "part_005"
         THEN [unit EXCEPT
                 !.captured = captured + 1,
                 !.sent = sent \o SendMessage(ready, captured + 1)]
         ELSE [unit EXCEPT
                 !.captured = captured + 1,
                 !.reading = reading \cup {captured + 1}]
  /\ ChunksIdle

\* reader.onloadend of the chunk's FileReader
OnLoadEnd(chunk) ==
  /\ chunk \in reading
  /\ unit' =
       [unit EXCEPT
          !.reading = reading \ {chunk},
          !.sent = sent \o SendAudioData(chunk)]
  /\ lastOp' = "onloadend"
  /\ ChunksIdle

InitChunks ==
  /\ InitProgram
  /\ unit \in {[NoChunks EXCEPT !.recorderSource = source] :
                 source \in RecorderSources}

NextChunks ==
  \/ \E ready \in BOOLEAN : OnDataAvailable(ready)
  \/ \E chunk \in 1..MaxChunks : OnLoadEnd(chunk)

SpecChunks == InitChunks /\ [][NextChunks]_vars

----------------------------------------------------------------------------
(***************************************************************************)
(* The conversion of one sample in processAudioChunk                       *)
(* (src/unnamed/part_005, lines 64-69):                                    *)
(*   pcm16Data[i] = Math.max(-1, Math.min(1, float32Array[i])) * 0x7FFF;   *)
(* A finite sample is the fraction num / SampleDen, which a Float32Array   *)
(* holds exactly when SampleDen is a power of two; NaN and the infinities  *)
(* are samples as well.  A product is kept as its numerator over           *)
(* SampleDen.                                                              *)
(***************************************************************************)
PcmScale == 32767   \* 0x7FFF

Sample(kind, num) == [kind |-> kind, num |-> num]

Samples ==
  {Sample("finite", n) : n \in -MaxSample..MaxSample}
    \cup {Sample(k, 0) : k \in {"NaN", "Infinity", "-Infinity"}}

\* Math.max(-1, Math.min(1, x)): NaN stays NaN
Clamp(x) ==
  CASE x.kind = "NaN" -> x
    [] x.kind = "Infinity" -> Sample("finite", SampleDen)
    [] x.kind = "-Infinity" -> Sample("finite", -SampleDen)
    [] x.kind = "finite" /\ x.num > SampleDen -> Sample("finite", SampleDen)
    [] x.kind = "finite" /\ x.num < -SampleDen -> Sample("finite", -SampleDen)
    [] OTHER -> x

\* x * 0x7FFF
Scaled(x) == IF x.kind = "NaN" THEN x ELSE Sample("finite", x.num * PcmScale)

\* the integer part of a / b: the fraction is dropped, towards zero
Truncate(a, b) == IF a >= 0 THEN a \div b ELSE -((-a) \div b)

\* the store into the Int16Array (ToInt16): NaN becomes 0, a number loses
\* its fraction and is taken modulo 2^16 into -32768..32767
ToInt16(x) ==
  IF x.kind = "NaN"
    THEN 0
    ELSE LET m == Truncate(x.num, SampleDen) % 65536
         IN  IF m >= 32768 THEN m - 65536 ELSE m

Pcm16(x) == ToInt16(Scaled(Clamp(x)))

PcmIdle ==
  UNCHANGED << ctlVars, wsVars, recVars, ghostVars, config, emitted, notes,
               issued, received, notified, returned >>

\* one round of the loop of processAudioChunk
ConvertSample ==
  /\ lastOp = "init"
  /\ unit' = [unit EXCEPT !.res = Pcm16(arg)]
  /\ lastOp' = "pcm16"
  /\ PcmIdle

InitPcm ==
  /\ InitProgram
  /\ unit \in {[NoChunks EXCEPT !.arg = sample] : sample \in Samples}

NextPcm == ConvertSample

SpecPcm == InitPcm /\ [][NextPcm]_vars

----------------------------------------------------------------------------
(***************************************************************************)
(* The frame that processAudioChunk builds for one chunk                   *)
(* (src/static/js/audio-recorder.js, lines 60-94; src/unnamed/part_005,    *)
(* lines 62-85): 4 bytes with the length of the metadata, the metadata as  *)
(* JSON text, the audio bytes.  A frame is a sequence of bytes, a text a   *)
(* sequence of characters, an object the sequence of its members, a number *)
(* in an object its decimal digits.  The chunk is taken to hold its        *)
(* samples as 16-bit little-endian PCM, which is the payload the frame     *)
(* layout asks for (a MediaRecorder delivers an encoded container).        *)
(***************************************************************************)
Member(key, kind, value) == [key |-> key, kind |-> kind, value |-> value]

\* audio-recorder.js: { sampleRate: 48000, channels: 1, format: 'webm' }
MetadataOfAudioRecorder ==
  <<
    Member(<< "s", "a", "m", "p", "l", "e", "R", "a", "t", "e" >>,
           "number", << "4", "8", "0", "0", "0" >>),
    Member(<< "c", "h", "a", "n", "n", "e", "l", "s" >>,
           "number", << "1" >>),
    Member(<< "f", "o", "r", "m", "a", "t" >>,
           "string", << "w", "e", "b", "m" >>)
  >>

\* part_005: { sampleRate: 16000 }
MetadataOfPart005 ==
  <<
    Member(<< "s", "a", "m", "p", "l", "e", "R", "a", "t", "e" >>,
           "number", << "1", "6", "0", "0", "0" >>)
  >>

MemberText(m) ==
  << "\"" >> \o m.key \o << "\"", ":" >>
    \o (IF m.kind = "string"
          THEN << "\"" >> \o m.value \o << "\"" >>
          ELSE m.value)

RECURSIVE MembersText(_)
MembersText(ms) ==
  IF ms = << >>
    THEN << >>
    ELSE MemberText(Head(ms))
           \o (IF Len(ms) > 1 THEN << "," >> ELSE << >>)
           \o MembersText(Tail(ms))

\* JSON.stringify of an object of numbers and strings
Stringify(obj) == << "{" >> \o MembersText(obj) \o << "}" >>

AsciiCode ==
  ("\"" :> 34) @@
  ("," :> 44) @@
  ("0" :> 48) @@
  ("1" :> 49) @@
  ("4" :> 52) @@
  ("6" :> 54) @@
  ("8" :> 56) @@
  (":" :> 58) @@
  ("C" :> 67) @@
  ("R" :> 82) @@
  ("a" :> 97) @@
  ("b" :> 98) @@
  ("c" :> 99) @@
  ("e" :> 101) @@
  ("f" :> 102) @@
  ("h" :> 104) @@
  ("l" :> 108) @@
  ("m" :> 109) @@
  ("n" :> 110) @@
  ("o" :> 111) @@
  ("p" :> 112) @@
  ("r" :> 114) @@
  ("s" :> 115) @@
  ("t" :> 116) @@
  ("u" :> 117) @@
  ("w" :> 119) @@
  ("{" :> 123) @@
  ("}" :> 125)

\* new TextEncoder().encode(text), for the characters of AsciiCode
Utf8(text) == [i \in 1..Len(text) |-> AsciiCode[text[i]]]

\* the 4 bytes of a 32-bit number, lowest byte first or last
Word32(order, n) ==
  LET b0 == n % 256
      b1 == (n \div 256) % 256
      b2 == (n \div 65536) % 256
      b3 == (n \div 16777216) % 256
  IN  IF order = "little" THEN << b0, b1, b2, b3 >> ELSE << b3, b2, b1, b0 >>

\* the 2 bytes of a 16-bit number in two's complement
Word16(order, n) ==
  LET lo == n % 256
      hi == (n % 65536) \div 256
  IN  IF order = "little" THEN << lo, hi >> ELSE << hi, lo >>

RECURSIVE Int16Bytes(_, _)
Int16Bytes(order, samples) ==
  IF samples = << >>
    THEN << >>
    ELSE Word16(order, Head(samples)) \o Int16Bytes(order, Tail(samples))

\* new Uint8Array(audioData): the bytes of the chunk
BlobBytes(samples) == Int16Bytes("little", samples)

\* new Float32Array(audioChunk): audioChunk is the Blob of the event, which
\* is no buffer, is not iterable and has no length, so the array is empty
Float32ArrayOf(samples) == << >>

\* audio-recorder.js: setInt32(0, metadataBytes.length, true), then the
\* metadata bytes, then the bytes of the chunk
FrameOfAudioRecorder(samples) ==
  LET metadataBytes == Utf8(Stringify(MetadataOfAudioRecorder))
  IN  Word32("little", Len(metadataBytes)) \o metadataBytes
        \o BlobBytes(samples)

\* part_005: the length as the bytes of a Uint32Array and the samples as
\* the bytes of an Int16Array, both in the byte order of the platform
FrameOfPart005(order, samples) ==
  LET float32Array == Float32ArrayOf(samples)
      pcm16Data ==
        [i \in 1..Len(float32Array) |-> Pcm16(float32Array[i])]
      metadata == Stringify(MetadataOfPart005)
  IN  Word32(order, Len(metadata)) \o Utf8(metadata)
        \o Int16Bytes(order, pcm16Data)

ByteOrders == {"little", "big"}

SampleValues == {-32768, -1, 0, 258}

RECURSIVE SamplesOf(_)
SamplesOf(n) ==
  IF n = 0
    THEN {<< >>}
    ELSE LET shorter == SamplesOf(n - 1)
         IN  shorter \cup {Append(a, v) : a \in shorter, v \in SampleValues}

Chunks ==
  [source : RecorderSources, order : ByteOrders,
   samples : SamplesOf(MaxFrameSamples)]

FrameIdle ==
  UNCHANGED << ctlVars, wsVars, recVars, ghostVars, config, emitted, notes,
               issued, received, notified, returned >>

\* processAudioChunk(audioChunk) up to the send
ProcessAudioChunk ==
  /\ lastOp = "init"
  /\ unit' =
       [unit EXCEPT
          !.res = IF arg.source = "part_005"
                    THEN FrameOfPart005(arg.order, arg.samples)
                    ELSE FrameOfAudioRecorder(arg.samples)]
  /\ lastOp' = "processAudioChunk"
  /\ FrameIdle

InitFrame ==
  /\ InitProgram
  /\ unit \in {[NoChunks EXCEPT !.arg = chunk] : chunk \in Chunks}

NextFrame == ProcessAudioChunk

SpecFrame == InitFrame /\ [][NextFrame]_vars

----------------------------------------------------------------------------
(***************************************************************************)
(* The grouping of the devices in AudioDeviceManager.loadDevices           *)
(* (src/templates/old.html, lines 483-500 and 649-683).  A label is a      *)
(* sequence of characters.                                                 *)
(***************************************************************************)
Upper ==
  << "A", "B", "C", "D", "E", "F", "G", "H", "I", "J", "K", "L", "M", "N",
     "O", "P", "Q", "R", "S", "T", "U", "V", "W", "X", "Y", "Z" >>

Lower ==
  << "a", "b", "c", "d", "e", "f", "g", "h", "i", "j", "k", "l", "m", "n",
     "o", "p", "q", "r", "s", "t", "u", "v", "w", "x", "y", "z" >>

\* String.prototype.toLowerCase, one character
ToLowerChar(c) ==
  IF \E i \in 1..Len(Upper) : Upper[i] = c
    THEN Lower[CHOOSE i \in 1..Len(Upper) : Upper[i] = c]
    ELSE c

\* device.label.toLowerCase() || ''
ToLowerCase(label) == [i \in 1..Len(label) |-> ToLowerChar(label[i])]

\* String.prototype.includes
Includes(s, t) ==
  \E i \in 0..(Len(s) - Len(t)) : SubSeq(s, i + 1, i + Len(t)) = t

vbDashCable ==
  << "v", "b", "-", "c", "a", "b", "l", "e" >>

vbCable ==
  << "v", "b", " ", "c", "a", "b", "l", "e" >>

virtual ==
  << "v", "i", "r", "t", "u", "a", "l" >>

cableOutput ==
  << "c", "a", "b", "l", "e", " ", "o", "u", "t", "p", "u", "t" >>

cableInput ==
  << "c", "a", "b", "l", "e", " ", "i", "n", "p", "u", "t" >>

voicemeeter ==
  << "v", "o", "i", "c", "e", "m", "e", "e", "t", "e", "r" >>

vac ==
  << "v", "a", "c" >>

virtualKeywords ==
  {vbDashCable, vbCable, virtual, cableOutput, cableInput, voicemeeter, vac}

default ==
  << "d", "e", "f", "a", "u", "l", "t" >>

communications ==
  << "c", "o", "m", "m", "u", "n", "i", "c", "a", "t", "i", "o", "n", "s" >>

DeviceGroups == {"virtual", "physical", "other"}

\* a grouping that asks for "default" and "communications" first
GroupOf_SystemFirst(label) ==
  LET l == ToLowerCase(label)
  IN  IF Includes(l, default) \/ Includes(l, communications)
        THEN "other"
        ELSE IF \E keyword \in virtualKeywords : Includes(l, keyword)
               THEN "virtual"
               ELSE "physical"

\* the list the forEach body pushes the device to
GroupOf(label) ==
  LET l == ToLowerCase(label)
  IN  IF \E keyword \in virtualKeywords : Includes(l, keyword)
        THEN "virtual"
        ELSE IF Includes(l, default) \/ Includes(l, communications)
               THEN "other"
               ELSE "physical"

\* this.deviceGroups after the forEach over one device
GroupsOf(label) ==
  [g \in DeviceGroups |-> IF g = GroupOf(label) THEN << label >> ELSE << >>]

\* the labels tried: up to MaxPieces of these pieces in a row
Pieces ==
  {
    << "V", "B", "-", "C", "a", "b", "l", "e" >>,
    << "V", "i", "r", "t", "u", "a", "l" >>,
    << "V" >>,
    << "A", "C" >>,
    << "D", "e", "f", "a", "u", "l", "t" >>,
    << "C", "O", "M", "M", "U", "N", "I", "C", "A", "T", "I", "O", "N",
       "S" >>,
    << "M", "i", "c" >>,
    << " ", "-", " " >>,
    << "C", "a", "b", "l", "e", " ", "I", "n", "p", "u", "t" >>,
    << "C", "A", "B", "L", "E", " ", "O", "u", "t", "p", "u", "t" >>,
    << "V", "o", "i", "c", "e", "M", "e", "e", "t", "e", "r" >>,
    << "v", "b", " " >>,
    << "U", "S", "B" >>
  }

RECURSIVE LabelsOf(_)
LabelsOf(n) ==
  IF n = 0
    THEN {<< >>}
    ELSE LET shorter == LabelsOf(n - 1)
         IN  shorter \cup {a \o b : a \in shorter, b \in Pieces}

Labels == LabelsOf(MaxPieces)

DevicesIdle ==
  UNCHANGED << ctlVars, wsVars, recVars, ghostVars, config, emitted, notes,
               issued, received, notified, returned >>

\* loadDevices() when enumerateDevices() reports one device
LoadDevices ==
  /\ lastOp = "init"
  /\ unit' = [unit EXCEPT !.res = GroupsOf(arg)]
  /\ lastOp' = "loadDevices"
  /\ DevicesIdle

InitDevices ==
  /\ InitProgram
  /\ unit \in {[NoChunks EXCEPT !.arg = label] : label \in Labels}

NextDevices == LoadDevices

SpecDevices == InitDevices /\ [][NextDevices]_vars

----------------------------------------------------------------------------
(***************************************************************************)
(* AudioDeviceManager (src/templates/old.html).  The file holds two        *)
(* classes of that name: the one of lines 444-626 ("first") fills the      *)
(* <select>, chooses a device and keeps its id in selectedDeviceId; the    *)
(* one of lines 630-733 ("second") keeps deviceGroups and selectedDevice,  *)
(* and its getSelectedDeviceId() returns a selectedDeviceId that nothing   *)
(* writes.  Here unit holds the fields of the manager.                     *)
(***************************************************************************)
ManagerSources == {"first", "second"}

Device(id, kind, label) == [deviceId |-> id, kind |-> kind, label |-> label]

\* the devices the platform may report
Catalog ==
  {
   Device("d1", "audioinput",
          << "M", "i", "c" >>),
   Device("d2", "audioinput",
          << "V", "i", "r", "t", "u", "a", "l" >>),
   Device("d3", "audioinput",
          << "V", "B", "-", "C", "a", "b", "l", "e" >>),
   Device("d4", "audioinput",
          << "D", "e", "f", "a", "u", "l", "t" >>),
   Device("d5", "audioinput",
          << "v", "b", " ", "c", "a", "b", "l", "e", " ", "B" >>),
   Device("d6", "audiooutput",
          << "O", "u", "t" >>)
  }

RECURSIVE DeviceListsOf(_)
DeviceListsOf(n) ==
  IF n = 0
    THEN {<< >>}
    ELSE LET shorter == DeviceListsOf(n - 1)
             Others(l) == {c \in Catalog : \A i \in 1..Len(l) : l[i] # c}
         IN  shorter
               \cup UNION {{Append(l, d) : d \in Others(l)} : l \in shorter}

DeviceLists == DeviceListsOf(MaxDevices)

\* devices.filter(device => device.kind === 'audioinput')
AudioInputs(list) == SelectSeq(list, LAMBDA d : d.kind = "audioinput")

\* the list the forEach pushes to, for every device in turn
GroupedAs(list, g) == SelectSeq(list, LAMBDA d : GroupOf(d.label) = g)

Grouped(list) == [g \in DeviceGroups |-> GroupedAs(list, g)]

NoGroups == [g \in DeviceGroups |-> << >>]

\* d.label.toLowerCase().includes('vb-cable') || ... .includes('vb cable')
IsVbCable(d) ==
  Includes(ToLowerCase(d.label), vbDashCable)
    \/ Includes(ToLowerCase(d.label), vbCable)

\* the device chosen at the end of the first loadDevices (lines 554-572)
ChosenDevice(list) ==
  LET virtualDevices == GroupedAs(list, "virtual")
      vbCableDevices == SelectSeq(virtualDevices, IsVbCable)
  IN  IF vbCableDevices # << >>
        THEN vbCableDevices[1]
        ELSE IF virtualDevices # << >> THEN virtualDevices[1] ELSE list[1]

Ids(list) == [i \in 1..Len(list) |-> list[i].deviceId]

\* the options appended to the <select>: virtual, physical, other
OptionsOf(list) ==
  Ids(GroupedAs(list, "virtual")) \o Ids(GroupedAs(list, "physical"))
    \o Ids(GroupedAs(list, "other"))

\* getSelectedDeviceId(): return this.selectedDeviceId
GetSelectedDeviceId(source, id) == IF source = "first" THEN id ELSE "undefined"

NoDevices ==
  [managerSource |-> "first", devices |-> << >>, deviceGroups |-> NoGroups,
   selectedDeviceId |-> "", selectedDevice |-> [input |-> "", output |-> ""],
   options |-> << "" >>]

ManagerIdle ==
  UNCHANGED << ctlVars, wsVars, recVars, ghostVars, config, emitted, notes,
               issued, received, notified, returned >>

\* loadDevices(): getUserMedia or enumerateDevices rejects (denied), or
\* enumerateDevices reports list
LoadDevicesOf(granted, list) ==
  /\ lastOp' = IF granted THEN "loadDevices.loaded" ELSE "loadDevices.denied"
  /\ unit' =
       IF managerSource = "first"
         THEN IF ~granted
                THEN [unit EXCEPT !.options = << "" >>]
                ELSE IF AudioInputs(list) = << >>
                       THEN [unit EXCEPT !.devices = << >>,
                                         !.options = << "" >>]
                       ELSE [unit EXCEPT
                               !.devices = AudioInputs(list),
                               !.options = OptionsOf(AudioInputs(list)),
                               !.selectedDeviceId =
                                 ChosenDevice(AudioInputs(list)).deviceId]
         ELSE IF ~granted
                THEN unit
                ELSE [unit EXCEPT !.devices = list,
                                  !.deviceGroups = Grouped(list)]
  /\ ManagerIdle

\* onDeviceChange() of the first class: the value of the option picked;
\* setDevice("input", id) of the second, for a device it holds
PickDevice(id) ==
  /\ lastOp' = "pickDevice"
  /\ IF managerSource = "first"
       THEN /\ \E i \in 1..Len(options) : options[i] = id
            /\ unit' = [unit EXCEPT !.selectedDeviceId = id]
       ELSE /\ \E i \in 1..Len(devices) : devices[i].deviceId = id
            /\ unit' = [unit EXCEPT !.selectedDevice.input = id]
  /\ ManagerIdle

InitManager ==
  /\ InitProgram
  /\ unit \in {[NoDevices EXCEPT !.managerSource = source] :
                 source \in ManagerSources}

NextManager ==
  \/ \E granted \in BOOLEAN, list \in DeviceLists :
       LoadDevicesOf(granted, list)
  \/ \E id \in {""} \cup {d.deviceId : d \in Catalog} : PickDevice(id)

SpecManager == InitManager /\ [][NextManager]_vars

-----------------------------------------------------------------------------
(***************************************************************************)
(* WebSocketHandler's listener registry on its own (src/static/js/         *)
(* websocket-handler.js, lines 8-19 and 192-228): addEventListener and     *)
(* removeEventListener called in any order while frames arrive.  unit is   *)
(* here the record of the registry: listeners is this.listeners, ops the   *)
(* calls made so far on the registry, wire the frames the socket has       *)
(* queued, arrived their count, heard the callbacks the last onmessage     *)
(* invoked and arg the frame it handled.                                   *)
(***************************************************************************)
\* a callback that does nothing to the registry, and one that unsubscribes
\* itself when it is invoked
Callbacks == {"plain", "once"}

\* the keys of this.listeners after construction
DeclaredKinds == {"transcription", "fullSentence", "translation"} \cup SttEvents

\* constructor: this.listeners
NoListeners == [k \in DeclaredKinds |-> << >>]

\* addEventListener(eventType, callback): this.listeners afterwards
AddedListener(l, k, cb) ==
  IF k \in DOMAIN l
    THEN [l EXCEPT ![k] = Append(@, cb)]
    ELSE [x \in DOMAIN l \cup {k} |-> IF x = k THEN << cb >> ELSE l[x]]

\* a removeEventListener that leaves the list as it is
RemovedListener_Kept(l, k, cb) == l

\* removeEventListener(eventType, callback): this.listeners afterwards
RemovedListener(l, k, cb) ==
  IF k \in DOMAIN l
    THEN [l EXCEPT ![k] = SelectSeq(@, LAMBDA c : c # cb)]
    ELSE l

\* _notifyListeners(eventType, data): the callbacks forEach invokes, in order
Invoked(l, k) == IF k \in DOMAIN l THEN l[k] ELSE << >>

\* a call made on the registry
Op(op, k, cb) == [op |-> op, kind |-> k, callback |-> cb]

\* the kinds subscribed to: one the constructor declares, one it does not
ListenerKinds == {"fullSentence", "audio"}

\* the frames that arrive: they are notified as 'audio' and 'fullSentence'
InboundFrames == {Blob, Text(Obj("type", "fullSentence"))}

NoRegistry ==
  [listeners |-> NoListeners, ops |-> << >>, wire |-> << >>, arrived |-> 0,
   heard |-> << >>, arg |-> [n |-> 0, frame |-> Blob]]

RegistryIdle ==
  UNCHANGED << ctlVars, wsVars, recVars, ghostVars, config, emitted, notes,
               issued, received, notified, returned >>

AddEventListener(k, cb) ==
  /\ Len(unit.ops) < MaxSubscriptions
  /\ lastOp' = "addEventListener"
  /\ unit' = [unit EXCEPT !.listeners = AddedListener(@, k, cb),
                          !.ops = Append(@, Op("add", k, cb))]
  /\ RegistryIdle

RemoveEventListener(k, cb) ==
  /\ Len(unit.ops) < MaxSubscriptions
  /\ lastOp' = "removeEventListener"
  /\ unit' = [unit EXCEPT !.listeners = RemovedListener(@, k, cb),
                          !.ops = Append(@, Op("remove", k, cb))]
  /\ RegistryIdle

\* the peer sends a frame: the socket queues its message event
FrameArrives(f) ==
  /\ unit.arrived < MaxInbound
  /\ lastOp' = "arrive"
  /\ unit' = [unit EXCEPT !.arrived = @ + 1,
                          !.wire = Append(@, [n |-> unit.arrived + 1,
                                              frame |-> f])]
  /\ RegistryIdle

\* socket.onmessage for the oldest queued event: it makes at most one
\* _notifyListeners call, whose forEach runs over the array as it was when
\* the call began; the callback "once" calls removeEventListener on itself
OnMessageEvent ==
  /\ unit.wire # << >>
  /\ lastOp' = "dispatch"
  /\ LET event == Head(unit.wire)
         ns == Dispatch(event.frame)
         k == IF ns = << >> THEN "" ELSE ns[1].kind
         called == Invoked(unit.listeners, k)
         gone == \E i \in 1..Len(called) : called[i] = "once"
     IN  unit' = [unit EXCEPT
                    !.wire = Tail(@),
                    !.arg = event,
                    !.heard = called,
                    !.listeners = IF gone THEN RemovedListener(@, k, "once")
                                          ELSE @,
                    !.ops = IF gone THEN Append(@, Op("remove", k, "once"))
                                    ELSE @]
  /\ RegistryIdle

InitRegistry == InitProgram /\ unit = NoRegistry

NextRegistry ==
  \/ \E k \in ListenerKinds, cb \in Callbacks : AddEventListener(k, cb)
  \/ \E k \in ListenerKinds, cb \in Callbacks : RemoveEventListener(k, cb)
  \/ \E f \in InboundFrames : FrameArrives(f)
  \/ OnMessageEvent

SpecRegistry == InitRegistry /\ [][NextRegistry]_vars

-----------------------------------------------------------------------------
(***************************************************************************)
(* RecorderProcessor (src/static/js/recorder-worklet.js, lines 1-22) on    *)
(* its own.  unit is here the record of the processor: buffer is           *)
(* this.buffer, port the chunks posted so far, fed the number of samples   *)
(* the inputs have held and processed the number of process() calls.  A    *)
(* sample is written as its ordinal number in the input.                   *)
(***************************************************************************)
\* the samples of one channel of one input: Float32Array(128)
RenderQuantum == 128

\* the length of a chunk
BlockSize == 1024

\* inputs[0]: no channel (nothing is connected), or one channel
Inputs == {0, 1}

\* input[0] when n samples came before it
ChannelData(n) == [i \in 1..RenderQuantum |-> n + i]

\* a slice that drops nothing
Rest_Whole(buffer) == buffer

\* this.buffer.slice(0, 1024)
Block(buffer) ==
  SubSeq(buffer, 1, IF Len(buffer) < BlockSize THEN Len(buffer) ELSE BlockSize)

\* this.buffer.slice(1024)
Rest(buffer) == SubSeq(buffer, BlockSize + 1, Len(buffer))

NoSamples == [buffer |-> << >>, port |-> << >>, fed |-> 0, processed |-> 0]

WorkletIdle ==
  UNCHANGED << ctlVars, wsVars, recVars, ghostVars, config, emitted, notes,
               issued, received, notified, returned >>

\* process(inputs), channels being inputs[0].length
Process(channels) ==
  /\ unit.processed < MaxProcessCalls
  /\ lastOp' = "process"
  /\ LET pushed == IF channels > 0
                     THEN unit.buffer \o ChannelData(unit.fed)
                     ELSE unit.buffer
         full == channels > 0 /\ Len(pushed) >= BlockSize
     IN  unit' = [unit EXCEPT
                    !.processed = @ + 1,
                    !.fed = IF channels > 0 THEN @ + RenderQuantum ELSE @,
                    !.buffer = IF full THEN Rest(pushed) ELSE pushed,
                    !.port = IF full THEN Append(@, Block(pushed)) ELSE @]
  /\ WorkletIdle

InitWorklet == InitProgram /\ unit = NoSamples

NextWorklet == \E channels \in Inputs : Process(channels)

SpecWorklet == InitWorklet /\ [][NextWorklet]_vars

-----------------------------------------------------------------------------
(***************************************************************************)
(* The listeners SessionManager.startSession() registers on the channel    *)
(* (src/unnamed/part_003, lines 60-88), on their own.  unit is here the    *)
(* record of them: listeners is this.listeners of the channel, starts the  *)
(* number of startSession() calls that succeeded, running whether the      *)
(* last of them was not followed by a stopSession(), arg the event the     *)
(* channel notified last, heard the listeners it invoked, shown the        *)
(* notifications they showed and pushed what each of them pushed on the    *)
(* translated tokens.                                                      *)
(***************************************************************************)
\* the kinds startSession() subscribes to
SessionKinds == << "connection", "error", "translation" >>

\* the arrow function startSession() number n passes for kind k
SessionListener(k, n) == [kind |-> k, session |-> n]

\* this.listeners after the addEventListener calls of startSession() number n
RECURSIVE ListenersAfterStart(_, _, _)
ListenersAfterStart(l, kinds, n) ==
  IF kinds = << >>
    THEN l
    ELSE ListenersAfterStart(
           AddedListener(l, Head(kinds), SessionListener(Head(kinds), n)),
           Tail(kinds), n)

\* state.pushTranslatedToken(translated): State has no such method, the
\* call throws and _notifyListeners catches it; nothing is pushed
PushTranslatedToken(translated) == << >>

\* what the channel notifies: _notifyListeners(kind, data)
ChannelEvent(kind, status, translated) ==
  [kind |-> kind, status |-> status, code |-> NULL, translated |-> translated]

ChannelEvents ==
  {ChannelEvent("connection", status, << >>) :
     status \in {"connected", "disconnected"}}
  \cup {ChannelEvent("error", "", << >>)}
  \cup {ChannelEvent("translation", "", t) : t \in Texts \ {<< >>}}

NoSessions ==
  [listeners |-> NoListeners, starts |-> 0, running |-> FALSE,
   arg |-> ChannelEvent("error", "", << >>), heard |-> << >>,
   shown |-> << >>, pushed |-> << >>]

SessionsIdle ==
  UNCHANGED << ctlVars, wsVars, recVars, ghostVars, config, emitted, notes,
               issued, received, notified, returned >>

\* startSession() once the backend answered with success
StartSessionDone ==
  /\ unit.starts < MaxSessions
  /\ lastOp' = "startSession"
  /\ unit' = [unit EXCEPT
                !.starts = @ + 1,
                !.running = TRUE,
                !.listeners = ListenersAfterStart(@, SessionKinds,
                                                  unit.starts + 1)]
  /\ SessionsIdle

\* stopSession() once its request was resolved: it removes no listener
StopSessionDone ==
  /\ unit.running
  /\ lastOp' = "stopSession"
  /\ unit' = [unit EXCEPT !.running = FALSE]
  /\ SessionsIdle

\* the channel notifies its listeners of an event
ChannelNotifies(e) ==
  /\ lastOp' = "notifyListeners"
  /\ LET called == Invoked(unit.listeners, e.kind)
     IN  unit' = [unit EXCEPT
                    !.arg = e,
                    !.heard = called,
                    !.shown = IF e.kind = "translation"
                                THEN << >>
                                ELSE [i \in 1..Len(called) |-> ListenerNote(e)],
                    !.pushed = IF e.kind = "translation"
                                 THEN [i \in 1..Len(called) |->
                                         PushTranslatedToken(e.translated)]
                                 ELSE << >>]
  /\ SessionsIdle

InitSessions == InitProgram /\ unit = NoSessions

NextSessions ==
  \/ StartSessionDone
  \/ StopSessionDone
  \/ \E e \in ChannelEvents : ChannelNotifies(e)

SpecSessions == InitSessions /\ [][NextSessions]_vars

----------------------------------------------------------------------------
TypeOK ==
  /\ state \in STATES
  /\ title = TitleOf(state)
  /\ sessionId \in SessionIds \cup {NULL}
  /\ socket \in {NoSocket, "CONNECTING", "OPEN", "CLOSED"}
  /\ NumClosing(closing) <= MaxClosing
  /\ reconnectAttempts \in 0..maxReconnectAttempts
  /\ timers \in 0..MaxTimers
  /\ pendingStarts \in 0..MaxPendingStarts
  /\ openStreams \in 0..MaxStreams

----------------------------------------------------------------------------
(***************************************************************************)
(* Properties of the session controller.                                   *)
(***************************************************************************)
ConfigValid(c) ==
  /\ c.selectedAudioCaptureDevice # ""
  /\ c.srcLanguage # ""
  /\ c.dstLanguage # ""
  /\ c.selectedS2tModel # ""

ChannelOpen == socket \in {"CONNECTING", "OPEN"}

C2_PlayFromIdleValid ==
  [][(state = WAITING /\ lastOp' = "play" /\ ConfigValid(config'))
       => /\ state' = CONNECTING
          /\ issued' = << "start_session" >>
          /\ playPc' = "fetch"]_vars

C2_Witness ==
  /\ lastOp = "play"
  /\ ConfigValid(config)
  /\ state = CONNECTING
  /\ sessionId = NULL
  /\ issued = << "start_session" >>

\* C3: play() in Idle with a required selection missing is a no-op: the
\* state stays Idle throughout (no setState call, so no state-changed
\* notification) and no session-open request is issued.
C3_PlayInvalidIsNoOp ==
  [][(state = WAITING /\ lastOp' = "play" /\ ~ConfigValid(config'))
       => /\ state' = WAITING
          /\ emitted' = << >>
          /\ issued' = << >>]_vars

\* the validation error of each category
DeviceError == Error("No audio capture device selected.")
LanguagesError == Error("Source and destination languages must be selected.")
ModelError == Error("No Speech-to-text model selected.")

\* the categories of selections that are missing in c
ExpectedErrors(c) ==
  (IF c.selectedAudioCaptureDevice = "" THEN {DeviceError} ELSE {})
  \cup (IF c.srcLanguage = "" \/ c.dstLanguage = ""
          THEN {LanguagesError} ELSE {})
  \cup (IF c.selectedS2tModel = "" THEN {ModelError} ELSE {})

Range(q) == {q[k] : k \in 1..Len(q)}

\* C4: a play() that got past its state guard reports exactly one
\* validation error for each category of missing selection, and none for
\* the others.
C4_OneErrorPerMissingCategory ==
  (lastOp = "play" /\ emitted # << >>)
    => /\ Range(notes) = ExpectedErrors(config)
       /\ Len(notes) = Cardinality(ExpectedErrors(config))

\* C5: stop() in a state other than Paused changes neither the state, the
\* session id, the channel nor the capture, and issues no request.
C5_StopOutsidePausedIsNoOp ==
  [][(state # PAUSED /\ lastOp' = "stop")
       => /\ UNCHANGED << ctlVars, wsVars, recVars >>
          /\ emitted' = << >>
          /\ issued' = << >>]_vars

C5_Witness ==
  /\ lastOp = "stop"
  /\ state = PLAYING
  /\ sessionId \in SessionIds
  /\ socket = "OPEN"
  /\ isRecording

\* C6: the step that enters Streaming finds the channel connected: a
\* successful session-open response alone leaves the controller in
\* Connecting.
C6_StreamingOnlyAfterConnected ==
  /\ lastOp = "playResponse.success" => state = CONNECTING
  /\ (state = PLAYING /\ PLAYING \in Range(emitted))
       => (socket = "OPEN" /\ isConnected)

\* C7: play() in Paused resumes the session: the controller goes to
\* Streaming, the session id and the channel are unchanged and no
\* session-open request is issued.
C7_PlayInPausedResumes ==
  [][(state = PAUSED /\ lastOp' = "play")
       => /\ state' = PLAYING
          /\ UNCHANGED << sessionId, wsVars >>
          /\ issued' = << >>]_vars

\* C8: when the pending session-open request fails (error status, or the
\* request throws), an error is reported and the controller is Idle.
C8_OpenFailureReturnsToIdle ==
  lastOp \in {"playResponse.error", "playResponse.throw"}
    => /\ state = WAITING
       /\ emitted = << WAITING >>
       /\ Len(notes) = 1
       /\ notes[1].level = "error"

C8_Witness ==
  /\ lastOp = "playResponse.throw"
  /\ state = WAITING
  /\ sessionId = NULL

\* C9: after a session-open or session-close request that failed, an Idle
\* controller has no stored session id, no open channel and no active
\* capture.
C9_NothingDanglingInIdle ==
  (state = WAITING
   /\ lastOp \in {"playResponse.error", "playResponse.throw",
                  "stopResponse.rejected"})
    => /\ sessionId = NULL
       /\ ~ChannelOpen
       /\ ~isConnected
       /\ ~isRecording

\* C10: when the session-close request issued by stop() completes, the
\* channel is closed, capture is stopped, the session id is cleared and
\* the controller is Idle.
C10_CloseCompletionTearsDown ==
  lastOp = "stopResponse.resolved"
    => /\ state = WAITING
       /\ emitted = << WAITING >>
       /\ sessionId = NULL
       /\ socket = NoSocket
       /\ ~isConnected
       /\ ~isRecording

C10_Witness ==
  /\ lastOp = "stopResponse.resolved"
  /\ state = WAITING
  /\ mediaRecorder
  /\ openStreams = 0

----------------------------------------------------------------------------
(***************************************************************************)
(* Properties of stop(), pause() and the title.                            *)
(***************************************************************************)

\* C11: whatever the answer to the session-close request, once it has
\* arrived the controller has left Stopping for Idle and the local teardown
\* is done: no socket, no running capture.
C11_StoppingEndsInIdle ==
  lastOp \in {"stopResponse.resolved", "stopResponse.rejected"}
    => /\ state = WAITING
       /\ socket = NoSocket
       /\ ~isRecording

\* C13: in every reachable state the title is the entry of the fixed
\* table for the current state, the table has an entry for each of the
\* five states, and a step that changes the state has called setState
\* (which dispatches stateChanged), last with the state it ends in.
C13_TitleFollowsState ==
  /\ [](/\ title = TITLES[state + 1]
        /\ Cardinality(STATES) = Len(TITLES)
        /\ \A s \in STATES : s + 1 \in DOMAIN TITLES)
  /\ [][state' # state
          => (emitted' # << >> /\ emitted'[Len(emitted')] = state')]_vars

C13_Witness ==
  /\ state = STOPPING
  /\ emitted = << STOPPING >>
  /\ title = "Disconnecting"

\* C14: pause() in Streaming sets Paused and nothing else: no request or
\* command is issued, the session id, the pending requests, the channel
\* and the capture are unchanged; pause() in any other state changes
\* nothing and calls no setState.
C14_PauseIsLocal ==
  [][lastOp' = "pause"
       => IF state = PLAYING
            THEN /\ state' = PAUSED
                 /\ issued' = << >>
                 /\ UNCHANGED << sessionId, playPc, stopPc, wsVars, recVars >>
            ELSE /\ UNCHANGED << ctlVars, wsVars, recVars >>
                 /\ emitted' = << >>
                 /\ issued' = << >>]_vars

C14_Witness ==
  /\ lastOp = "pause"
  /\ state = PAUSED
  /\ emitted = << PAUSED >>
  /\ sessionId \in SessionIds
  /\ socket = "OPEN"
  /\ isConnected

----------------------------------------------------------------------------
(***************************************************************************)
(* Properties of the channel.                                              *)
(***************************************************************************)

\* an abnormal close that found the reconnect attempts used up: it leaves
\* no timer behind, where a close that is retried leaves its own
ExhaustedClose ==
  /\ lastOp = "onclose.abnormal"
  /\ reconnectAttempts = maxReconnectAttempts
  /\ timers = 0

\* C12: an abnormal close with the reconnect attempts exhausted closes the
\* channel, stops the capture, reports an error and leaves the controller
\* Idle, whatever state it was in.
C12_UnrecoverableFailureReturnsToIdle ==
  ExhaustedClose
    => /\ state = WAITING
       /\ ~ChannelOpen
       /\ ~isRecording
       /\ \E k \in 1..Len(notes) : notes[k].level = "error"

\* C15: the counter of reconnect attempts never exceeds 5, and between two
\* successful opens the reconnect timer calls connect() at most 5 times.
C15_AtMostFiveReopens ==
  /\ reconnectAttempts <= maxReconnectAttempts
  /\ reopens <= maxReconnectAttempts

\* C16: a close with the normal-closure code schedules no retry, and once
\* disconnect() has dropped the socket only a connect() of the client, which
\* startSession() calls, gives the handler a socket again.
C16_NoRetryAfterDisconnect ==
  [][/\ lastOp' = "onclose.normal" => UNCHANGED << timers, reconnectAttempts >>
     /\ (socket = NoSocket /\ socket' # NoSocket)
          => lastOp' = "playResponse.success"]_vars

NonFatalNotifications ==
  { Notification("error", "", NULL),
    Notification("connection", "disconnected", ABNORMAL_CLOSURE) }

\* C18: the abnormal close that finds the five reconnect attempts used up
\* tells the subscribers of a fatal connection error: a notification other
\* than those of the closes that were retried.
C18_FatalErrorWhenExhausted ==
  ExhaustedClose
    => \E k \in 1..Len(notified) : notified[k] \notin NonFatalNotifications

\* the frame handled in the step is a text that JSON.parse rejects
Malformed(fs) == Len(fs) = 1 /\ ~fs[1].blob /\ ~Parses(fs[1].text)

\* C19: an inbound text that is not well-formed JSON is dropped: no
\* subscriber is notified, nothing is reported, the socket, isConnected,
\* the counter of reconnect attempts and everything else of the handler,
\* the controller and the recorder are unchanged; a well-formed message
\* that arrives next is dispatched to its subscribers.
C19_MalformedFrameDropped ==
  [][/\ (lastOp' = "onmessage" /\ Malformed(received'))
          => /\ notified' = << >>
             /\ notes' = << >>
             /\ socket' = "OPEN"
             /\ UNCHANGED << ctlVars, wsVars, recVars >>
     /\ (/\ lastOp = "onmessage" /\ Malformed(received)
         /\ lastOp' = "onmessage"
         /\ received' = << Text(Obj("type", "fullSentence")) >>)
          => notified' = << Notification("fullSentence", "", NULL) >>]_vars

C19_Witness ==
  /\ lastOp = "onmessage"
  /\ received = << Text(Truncated("type")) >>
  /\ notified = << >>
  /\ socket = "OPEN"
  /\ isConnected

\* C20: a command sent while isConnected is false, and an audio chunk that
\* arrives while the socket is not ready, puts nothing on the wire, leaves
\* the handler's fields unchanged and hands a not-connected error back to
\* the caller.
C20_SendWhileNotConnected ==
  [][/\ (/\ lastOp' \in {"startListening", "stopListening", "getUserMedia"}
         /\ returned' # << >>
         /\ ~isConnected)
          => /\ issued' = << >>
             /\ UNCHANGED wsVars
             /\ returned' = << "NotConnectedError" >>
     /\ (lastOp' = "dataavailable" /\ ~IsSocketReady(socket))
          => /\ issued' = << >>
             /\ UNCHANGED wsVars
             /\ returned' = << "NotConnectedError" >>]_vars

----------------------------------------------------------------------------
(***************************************************************************)
(* Properties of the transcript view.                                      *)
(***************************************************************************)
IsPrefix(a, b) == Len(a) <= Len(b) /\ SubSeq(b, 1, Len(a)) = a

IsSuffix(a, b) ==
  Len(a) <= Len(b) /\ SubSeq(b, Len(b) - Len(a) + 1, Len(b)) = a

\* C21: the finalized text only grows at its end: in every step the text
\* before is a prefix of the text after, and only finalizeSentence, the
\* handler of final events, changes it.
C21_CommittedAppendOnly ==
  [][/\ IsPrefix(fullSentences, fullSentences')
     /\ fullSentences' # fullSentences => lastOp' = "finalizeSentence"]_vars

C21_Witness ==
  /\ lastOp = "finalizeSentence"
  /\ fullSentences = helloWorld \o bye
  /\ heard = bye

\* C22: a partial event replaces the pending text by its text, whatever
\* the text; a final event leaves the pending text empty, whatever its
\* text; no other event changes the pending text.
C22_PendingReplacedAndCleared ==
  [][/\ lastOp' = "handleTranscription" => buildingSentence' = heard'
     /\ lastOp' = "finalizeSentence" => buildingSentence' = << >>
     /\ lastOp' \notin {"handleTranscription", "finalizeSentence"}
          => UNCHANGED buildingSentence]_vars

\* the step was an event with a text: the view has called render()
Rendered ==
  lastOp \in {"handleTranscription", "finalizeSentence"} /\ HasText(heard)

\* C23: what render() produces is the finalized text followed by the
\* pending text and nothing after it; with "hello world" finalized and
\* "bye" pending it is "hello world bye".
C23_RenderIsProjection ==
  Rendered
    => /\ IsPrefix(fullSentences, viewText)
       /\ IsSuffix(buildingSentence, viewText)
       /\ (fullSentences = helloWorld /\ buildingSentence = bye)
            => viewText = helloWorld \o << " " >> \o bye

\* C33: a message of the realtime kind that has a text makes that text the
\* pending text of the view, and a fullSentence message that has a text is
\* handled by the view's final handler: its text is appended to the
\* sentences and the pending text is cleared.
C33_PartialsReachTheView ==
  (lastOp = "deliver" /\ HasText(arg.text))
    => /\ arg.type \in {"realtime", "transcription"}
            => (heard = arg.text /\ buildingSentence = arg.text)
       /\ arg.type = "fullSentence"
            => /\ heard = arg.text
               /\ IsSuffix(arg.text, fullSentences)
               /\ buildingSentence = << >>

----------------------------------------------------------------------------
(***************************************************************************)
(* Properties of the recorder.                                             *)
(***************************************************************************)

\* C24: whatever the order of the startRecording() calls and of their
\* device acquisitions, at most one capture stream is open at a time.
C24_OneCaptureStream == openStreams <= 1

\* C25: a stopRecording() that finds no recorder, or a recorder that is
\* not recording (it was stopped before), changes nothing of the recorder
\* and releases no stream; after any stopRecording() the recorder is not
\* recording and no more than one stream was released.
C25_StopIsIdempotent ==
  [][lastOp' \in {"stopRecording.stopped", "stopRecording.skipped"}
       => /\ ~isRecording'
          /\ (~mediaRecorder \/ ~isRecording)
               => UNCHANGED << mediaRecorder, isRecording, pendingStarts,
                               openStreams >>
          /\ openStreams' >= 0
          /\ openStreams' >= openStreams - 1]_vars

C25_Witness ==
  /\ lastOp = "stopRecording.skipped"
  /\ mediaRecorder
  /\ ~isRecording
  /\ openStreams = 0

\* C26: no stream of a startRecording() that was called before the last
\* stopRecording() is open, whether its device acquisition had settled by
\* then or settled later.
C26_StopReleasesEveryStream == oldStreams = 0

----------------------------------------------------------------------------
(***************************************************************************)
(* Properties of the audio frame.                                          *)
(***************************************************************************)
\* the metadata of the frame layout: {sampleRate: 48000, channelCount: 1,
\* format: "webm"}
StatedMetadata ==
  <<
    Member(<< "s", "a", "m", "p", "l", "e", "R", "a", "t", "e" >>,
           "number", << "4", "8", "0", "0", "0" >>),
    Member(<< "c", "h", "a", "n", "n", "e", "l", "C", "o", "u", "n", "t" >>,
           "number", << "1" >>),
    Member(<< "f", "o", "r", "m", "a", "t" >>,
           "string", << "w", "e", "b", "m" >>)
  >>

KnownMetadata == {StatedMetadata, MetadataOfAudioRecorder, MetadataOfPart005}

\* JSON.parse of the metadata bytes: the object whose JSON text they are
ParsedMetadata(bytes) ==
  IF \E obj \in KnownMetadata : Utf8(Stringify(obj)) = bytes
    THEN CHOOSE obj \in KnownMetadata : Utf8(Stringify(obj)) = bytes
    ELSE << >>

\* the 16-bit number of two bytes, lowest first
Int16Of(lo, hi) ==
  LET n == lo + 256 * hi IN IF n >= 32768 THEN n - 65536 ELSE n

\* a frame read by the layout: 4 bytes of length N, lowest first; N bytes
\* of JSON metadata; 16-bit samples, lowest byte first.  A frame whose
\* declared length exceeds what is left of it is rejected.
Decoded(frame) ==
  LET n == frame[1] + 256 * frame[2] + 65536 * frame[3]
             + 16777216 * frame[4]
      payload == SubSeq(frame, 5 + n, Len(frame))
  IN  IF Len(frame) < 4 \/ n > Len(frame) - 4
        THEN [accepted |-> FALSE, metadata |-> << >>, samples |-> << >>]
        ELSE [accepted |-> TRUE,
              metadata |-> ParsedMetadata(SubSeq(frame, 5, 4 + n)),
              samples |-> [i \in 1..(Len(payload) \div 2) |->
                             Int16Of(payload[2 * i - 1], payload[2 * i])]]

\* C28: the frame built for a chunk of N samples, read by the frame
\* layout, is accepted and gives the metadata {sampleRate: 48000,
\* channelCount: 1, format: "webm"} and the N samples of the chunk.
C28_FrameRoundTrip ==
  lastOp = "processAudioChunk"
    => /\ Decoded(res).accepted
       /\ Decoded(res).metadata = StatedMetadata
       /\ Decoded(res).samples = arg.samples

Abs(n) == IF n >= 0 THEN n ELSE -n

\* the numerator, over SampleDen, of clamp(s, -1, 1) * 32767
ClampedProduct(x) ==
  IF x.kind = "Infinity" \/ (x.kind = "finite" /\ x.num > SampleDen)
    THEN SampleDen * 32767
    ELSE IF x.kind = "-Infinity" \/ (x.kind = "finite" /\ x.num < -SampleDen)
           THEN -SampleDen * 32767
           ELSE x.num * 32767

\* C29: the 16-bit value of every sample is within -32767..32767; 0 gives
\* 0, 1 gives 32767 and -1 gives -32767; and the value of a sample that is
\* a number is round(clamp(s, -1, 1) * 32767), an integer nearest to the
\* product (either one when the product lies halfway).
C29_PcmIsRoundedClamp ==
  lastOp = "pcm16"
    => /\ res \in -32767..32767
       /\ arg = Sample("finite", 0) => res = 0
       /\ arg = Sample("finite", SampleDen) => res = 32767
       /\ arg = Sample("finite", -SampleDen) => res = -32767
       /\ arg.kind # "NaN"
            => 2 * Abs(res * SampleDen - ClampedProduct(arg)) <= SampleDen

----------------------------------------------------------------------------
(***************************************************************************)
(* Properties of the device list.                                          *)
(***************************************************************************)
SameLetter(c, d) ==
  c = d \/ \E i \in 1..Len(Upper) : {c, d} = {Upper[i], Lower[i]}

\* word occurs in label, letters compared without regard to case
Occurs(word, label) ==
  \E i \in 0..(Len(label) - Len(word)) :
    \A k \in 1..Len(word) : SameLetter(label[i + k], word[k])

ClassOf(label) ==
  IF \E keyword \in virtualKeywords : Occurs(keyword, label)
    THEN "virtual"
    ELSE IF Occurs(default, label) \/ Occurs(communications, label)
           THEN "other"
           ELSE "physical"

\* C30: a device is put in exactly one group: the virtual one if its label
\* contains a virtual keyword in any case; else the system one (the list
\* otherDevices, shown as "System Devices") if it contains "default" or
\* "communications" in any case; else, the empty label included, the
\* physical one.
C30_ClassificationIsTotal ==
  lastOp = "loadDevices"
    => \A g \in DeviceGroups :
         res[g] = IF g = ClassOf(arg) THEN << arg >> ELSE << >>

\* "DefaultVirtual" went to the virtual group
C30_Witness ==
  /\ lastOp = "loadDevices"
  /\ Occurs(default, arg)
  /\ Occurs(virtual, arg)
  /\ arg # ToLowerCase(arg)
  /\ res["virtual"] = << arg >>

\* the devices of the set whose label has word in it, in any case
Having(list, word) == SelectSeq(list, LAMBDA d : Occurs(word, d.label))

VirtualOnes(list) == SelectSeq(list, LAMBDA d : ClassOf(d.label) = "virtual")

VbCableOnes(list) ==
  SelectSeq(VirtualOnes(list),
            LAMBDA d : Occurs(vbDashCable, d.label) \/ Occurs(vbCable, d.label))

\* the device the selection policy names
Preferred(list) ==
  IF VbCableOnes(list) # << >>
    THEN VbCableOnes(list)[1]
    ELSE IF VirtualOnes(list) # << >> THEN VirtualOnes(list)[1] ELSE list[1]

\* C31: after a refresh that loaded a device set that is not empty, the
\* selected device id (what getSelectedDeviceId() returns) is the id of
\* the first virtual device with "vb-cable" or "vb cable" in its label, else
\* of the first virtual device, else of the first device; it is the id of a
\* device of the set.
C31_DefaultSelection ==
  (lastOp = "loadDevices.loaded" /\ devices # << >>)
    => /\ GetSelectedDeviceId(managerSource, selectedDeviceId)
            = Preferred(devices).deviceId
       /\ \E i \in 1..Len(devices) :
            devices[i].deviceId
              = GetSelectedDeviceId(managerSource, selectedDeviceId)

\* C32: after a refresh during which permission was denied the manager
\* holds no device, no group with a device in it and no selected device id.
C32_DeniedRefreshEmptiesTheSet ==
  lastOp = "loadDevices.denied"
    => /\ devices = << >>
       /\ \A g \in DeviceGroups : deviceGroups[g] = << >>
       /\ selectedDeviceId = ""
       /\ selectedDevice.input = ""

\* ---------------------------------------------------------------------
\* Properties of the session's channel and capture
\* ---------------------------------------------------------------------

\* the capture pipeline is active: a recorder runs or getUserMedia() is pending
CaptureActive(rec, pending) == rec \/ pending > 0

\* C34: the step in which the channel opened for a session reports connected
\* leaves the capture pipeline active (no user action is needed), and the
\* step in which the recorder starts leaves the channel open.
C34_CaptureFollowsChannel ==
  [][ /\ (lastOp' = "onopen" /\ sessionId # NULL)
          => CaptureActive(isRecording', pendingStarts')
      /\ (~isRecording /\ isRecording') => socket' = "OPEN" ]_vars

\* ---------------------------------------------------------------------
\* Properties of the listener registry
\* ---------------------------------------------------------------------

\* the subscribers of kind k that a history of subscribe and unsubscribe
\* calls leaves, in subscription order
RECURSIVE SubscribersAfter(_, _)
SubscribersAfter(history, k) ==
  IF history = << >>
    THEN << >>
    ELSE LET before == SubscribersAfter(SubSeq(history, 1, Len(history) - 1), k)
             last == history[Len(history)]
         IN  IF last.kind # k
               THEN before
               ELSE IF last.op = "add"
                      THEN Append(before, last.callback)
                      ELSE SelectSeq(before, LAMBDA c : c # last.callback)

\* the kind under which a frame is notified
KindOfFrame(f) == IF f.blob THEN "audio" ELSE TypeOf(f.text)

\* C35: the handling of an inbound event invokes, within that step, the
\* subscribers of the event's kind in subscription order, a subscriber
\* that was unsubscribed before the event not among them; and the events
\* are handled in arrival order, none skipped.
C35_DispatchInSubscriptionOrder ==
  [][lastOp' = "dispatch"
       => /\ unit'.heard = SubscribersAfter(unit.ops, KindOfFrame(unit'.arg.frame))
          /\ unit'.arg.n = unit.arg.n + 1]_vars

\* the second event reached "plain" only: "once", subscribed ahead of it,
\* unsubscribed itself during the first
C35_Witness ==
  /\ lastOp = "dispatch"
  /\ unit.arg.n = 2
  /\ unit.heard = << "plain" >>
  /\ unit.ops[1] = Op("add", KindOfFrame(unit.arg.frame), "once")
  /\ unit.ops[2] = Op("add", KindOfFrame(unit.arg.frame), "plain")

\* ---------------------------------------------------------------------
\* Properties of the frame layout
\* ---------------------------------------------------------------------

\* the number that four bytes spell, lowest byte first
LittleEndian32(bytes) ==
  bytes[1] + 256 * bytes[2] + 65536 * bytes[3] + 16777216 * bytes[4]

\* the bytes of the JSON metadata a recorder puts in its frames
MetadataBytes(source) ==
  Utf8(Stringify(IF source = "part_005" THEN MetadataOfPart005
                                         ELSE MetadataOfAudioRecorder))

\* the payload bytes a recorder makes of a chunk
PayloadBytes(chunk) ==
  IF chunk.source = "part_005"
    THEN Int16Bytes(chunk.order,
                    [i \in 1..Len(Float32ArrayOf(chunk.samples)) |->
                       Pcm16(Float32ArrayOf(chunk.samples)[i])])
    ELSE BlobBytes(chunk.samples)

\* C36: the frame built for a chunk starts with four bytes that spell,
\* lowest byte first, the byte length N of the UTF-8 JSON metadata; the
\* metadata are the next N bytes; the payload bytes start at offset 4 + N
\* and run to the end, so that the frame is 4 + N + payload length long.
C36_LengthPrefixIsExact ==
  lastOp = "processAudioChunk"
    => /\ Len(res) >= 4
       /\ LittleEndian32(res) = Len(MetadataBytes(arg.source))
       /\ SubSeq(res, 5, 4 + LittleEndian32(res)) = MetadataBytes(arg.source)
       /\ SubSeq(res, 5 + LittleEndian32(res), Len(res)) = PayloadBytes(arg)
       /\ Len(res) = 4 + LittleEndian32(res) + Len(PayloadBytes(arg))

\* ---------------------------------------------------------------------
\* Properties of the capture worklet
\* ---------------------------------------------------------------------

\* the chunks of a port one after another
RECURSIVE Flat(_)
Flat(chunks) ==
  IF chunks = << >> THEN << >> ELSE Head(chunks) \o Flat(Tail(chunks))

\* C37: every chunk the worklet has posted holds exactly 1024 samples; the
\* chunks posted, followed by what is buffered, are the samples of the
\* inputs in input order, each once; and after a process() call fewer
\* than 1024 samples are buffered.
C37_BlocksOfExactSize ==
  /\ \A i \in 1..Len(unit.port) : Len(unit.port[i]) = 1024
  /\ Flat(unit.port) \o unit.buffer = [i \in 1..unit.fed |-> i]
  /\ Len(unit.buffer) < 1024

\* two chunks were posted and a third is being filled
C37_Witness ==
  /\ lastOp = "process"
  /\ Len(unit.port) = 2
  /\ unit.buffer # << >>

\* ---------------------------------------------------------------------
\* Properties of the backend requests and of the channel's flag
\* ---------------------------------------------------------------------

\* the requests to the backend that open and close a session
SessionRequests == {<< "start_session" >>, << "stop_session" >>}

\* C38: a session-open or session-close request is issued only while no
\* session request is pending, so that at most one is in flight: never two
\* session-open requests, never a session-open and a session-close request
\* together.
C38_OneRequestInFlight ==
  [][/\ issued' \in SessionRequests => (playPc = "idle" /\ stopPc = "idle")
     /\ ~(playPc' = "fetch" /\ stopPc' = "fetch")]_vars

\* play() was called while the session-open request was pending
C38_Witness ==
  /\ lastOp = "play"
  /\ playPc = "fetch"
  /\ issued = << >>

\* C39: the flag isConnected is set exactly while the current socket is
\* open; a step that handles the close event of a replaced socket leaves
\* the flag set if the current socket is open, and a retry never replaces
\* a socket that is connecting or open.
C39_FlagFollowsCurrentSocket ==
  [][/\ isConnected' <=> socket' = "OPEN"
     /\ lastOp' = "timer" => socket \notin {"CONNECTING", "OPEN"}]_vars

\* ---------------------------------------------------------------------
\* Properties of the session controller's subscriptions
\* ---------------------------------------------------------------------

\* C40: once a session was started, whatever the number of session starts
\* and stops, the session controller handles a connection or an error
\* event of the channel by showing one notification, and a translation
\* event by pushing its translated token once.
C40_SubscriptionsDoNotAccumulate ==
  (lastOp = "notifyListeners" /\ unit.starts >= 1)
    => IF unit.arg.kind = "translation"
         THEN unit.pushed = << << unit.arg.translated >> >>
         ELSE Len(unit.shown) = 1

====
